---------------------------- MODULE Spec2Model ----------------------------
(***************************************************************************)
(* Model of the gesture controller of anti_bot_core.py: the pan loop       *)
(* drag_to_latlon, the zoom loop wheel_to_zoom and their composition       *)
(* human_like_recenter, and the sweep grid_sweep that pans to each point   *)
(* of a ring pattern, driving a page whose state is read from page.url.    *)
(*                                                                         *)
(* Numbers.  Zoom is a float in the code; here it is carried in half       *)
(* levels, z2 = 2 * zoom, so that 10.5 is 21 and round() has ties to       *)
(* break.  Geographic points lie on the grid that the Mercator projection  *)
(* maps to whole half-pixels at zoom RefZoom2 / 2: lon counts grid steps   *)
(* east of the antimeridian, lat counts grid steps south of the top edge.  *)
(* Pixel lengths are in half pixels (3.5 px is 7, 800 px is 1600).  At a   *)
(* half zoom level the scale 2^z is an odd power of Sqrt(2): a pixel       *)
(* coordinate is then a whole multiple n of Sqrt(2) half pixels, and the   *)
(* model carries n together with Rad(z2) = 1.  Squares of lengths are      *)
(* whole numbers at every zoom, so every comparison the code makes on      *)
(* math.hypot is made exactly on the squares.                              *)
(*                                                                         *)
(* Besides the gesture controller the module carries the pure functions    *)
(* clamp_coordinates, ll_to_pixel and pixel_to_ll as their callers apply   *)
(* them, two convergence loops run as concurrent tasks on two pages, the   *)
(* worker pool of create_worker_pool as process_item uses it, and the      *)
(* route handler of setup_resource_blocking.                               *)
(***************************************************************************)
EXTENDS Integers, Sequences, FiniteSets, TLC

\* ------------------------------------------------------------------ bounds
\* Callers pass max_iterations in 1 .. MaxIterArg and max_attempts in
\* 1 .. MaxAttemptsArg.
MaxIterArg == 3

MaxAttemptsArg == 6

\* Callers pass rings in 1 .. MaxRings to grid_sweep.
MaxRings == 2

\* The result of clamp_coordinates is fed back to it up to MaxReclamp times.
MaxReclamp == 2

\* create_worker_pool is called with worker_count in -1 .. MaxWorkerCount and
\* up to MaxItems process_item tasks are gathered on the pool.
MaxWorkerCount == 2

MaxItems == 3

\* The browser routes up to MaxRequests requests to the route handler.
MaxRequests == 3

\* human_scroll is called with pauses in 1 .. MaxPauses.
MaxPauses == 4

\* create_response_interceptor is given up to MaxHandlers handlers.
MaxHandlers == 3

\* ------------------------------------------------------- program constants
\* drag_to_latlon defaults: tolerance_px = 3.5, max_iterations = 18,
\* max_drag_px = 800.0, step_count = 20 (lengths in half pixels).
DefaultTolerancePx == 7

DefaultMaxIterations == 18

DefaultMaxDragPx == 1600

DefaultStepCount == 20

\* wheel_to_zoom default: max_attempts = 20.
DefaultMaxAttempts == 20

\* Magnitude of the wheel delta of one zoom step.
WheelDelta == 300

\* The band random.randint(9, 12) of the randomized zoom-out, and the floor
\* and offset of the fixed one, max(9, zoom - 3).
RandOutMin == 9

RandOutMax == 12

FixedOutOffset == 3

\* grid_sweep default: step_px = 360 (in half pixels).
DefaultStepPx == 720

\* The zoom (in half levels) at which one grid step is one half pixel.
RefZoom2 == 2 * 8

\* Python None as _get_page_state returns it: falsy, here the empty tuple.
None == <<>>

\* --------------------------------------------------------------- numerics
Abs(n) == IF n < 0 THEN -n ELSE n

RECURSIVE SqrtBetween(_, _, _)
\* The largest s in lo .. hi with s * s <= n, by bisection (lo * lo <= n).
SqrtBetween(n, lo, hi) ==
    IF lo >= hi THEN lo
    ELSE LET mid == (lo + hi + 1) \div 2
         IN  IF mid * mid <= n THEN SqrtBetween(n, mid, hi)
             ELSE SqrtBetween(n, lo, mid - 1)

\* Floor of the square root of n >= 0 (n stays below 2^30 in this model).
ISqrt(n) == SqrtBetween(n, 0, 32767)

\* round(z) of line 228, Python 3 round() on the zoom z2 / 2: to the nearest
\* integer, ties to the even neighbour (round(10.5) = 10, round(11.5) = 12).
round(z2) ==
    LET k == z2 \div 2
    IN  IF z2 % 2 = 0 THEN k
        ELSE IF k % 2 = 0 THEN k ELSE k + 1

\* ------------------------------------------------------------- projection
\* scale = 256 * 2^z of ll_to_pixel on the model's grid: Scale(z2) grid steps
\* per unit, the unit being Sqrt(2)^Rad(z2) half pixels.
Rad(z2) == (z2 - RefZoom2) % 2

Scale(z2) == 2 ^ Abs((z2 - RefZoom2) \div 2)

\* Below zoom 8 a unit is Scale(z2) grid steps wide.
Coarser(z2) == z2 < RefZoom2

ll_to_pixel_swapped(lat, lon, z2) ==
    IF Coarser(z2) THEN <<lat \div Scale(z2), lon \div Scale(z2)>>
    ELSE <<lat * Scale(z2), lon * Scale(z2)>>

\* ll_to_pixel(lat, lon, z): <<x, y>> in units of Sqrt(2)^Rad(z2) half pixels.
ll_to_pixel(lat, lon, z2) ==
    IF Coarser(z2) THEN <<lon \div Scale(z2), lat \div Scale(z2)>>
    ELSE <<lon * Scale(z2), lat * Scale(z2)>>

\* The poles are not on the grid (the projection sends them to infinity):
\* lat = 90 and lat = -90 are carried as two values far off either end.
NorthPole == -1000000

SouthPole == 1000000

\* Lines 56-57: at lat = 90, siny is 1.0 and 1 - siny divides by zero; at
\* lat = -90 the logarithm is taken of 0.  ll_to_pixel has no value there.
ProjectionFails(lat) == lat \in {NorthPole, SouthPole}

ProjectionError(lat) ==
    IF lat = NorthPole THEN "ZeroDivisionError" ELSE "ValueError"

pixel_to_ll_swapped(x, y, z2) ==
    IF Coarser(z2) THEN <<x * Scale(z2), y * Scale(z2)>>
    ELSE <<x \div Scale(z2), y \div Scale(z2)>>

\* pixel_to_ll(x, y, z): <<lat, lon>>, the inverse on the grid.
pixel_to_ll(x, y, z2) ==
    IF Coarser(z2) THEN <<y * Scale(z2), x * Scale(z2)>>
    ELSE <<y \div Scale(z2), x \div Scale(z2)>>

\* math.hypot(dx, dy) squared, in half pixels squared.
Hypot2(dx, dy, z2) == (dx * dx + dy * dy) * (IF Rad(z2) = 1 THEN 2 ELSE 1)

\* dist <= v for a length whose square is dist2 (v may be negative).
DistLeq(dist2, v) == v >= 0 /\ dist2 <= v * v

\* v < dist for a length whose square is dist2.
LessThanDist(v, dist2) == v < 0 \/ v * v < dist2

\* ------------------------------------------------------- clamp_coordinates
\* Python's built-in max and min of two numbers: the first argument unless
\* the second is strictly greater (smaller).
max(a, b) == IF b > a THEN b ELSE a

min(a, b) == IF b < a THEN b ELSE a

clamp_coordinates_swapped(lat, lon, bounds) ==
    <<max(bounds[3], min(lon, bounds[4])), max(bounds[1], min(lat, bounds[2]))>>

clamp_coordinates_wrapping(lat, lon, bounds) ==
    <<max(bounds[1], min(lat, bounds[2])),
      max(bounds[3], min(((lon + 180) % 360) - 180, bounds[4]))>>

\* Lines 96-97, bounds = (latMin, latMax, lonMin, lonMax), in whole degrees.
clamp_coordinates(lat, lon, bounds) ==
    LET mnLat == bounds[1]
        mxLat == bounds[2]
        mnLon == bounds[3]
        mxLon == bounds[4]
    IN  <<max(mnLat, min(lat, mxLat)), max(mnLon, min(lon, mxLon))>>

\* ------------------------------------------------------------ page state
\* page.url is carried as the comma-separated fields of its "ms" query
\* parameter, <<>> when the parameter is absent or empty.  A field is a
\* number, or text that float() rejects.
Num(v) == [float |-> TRUE, v |-> v]

Junk == [float |-> FALSE, v |-> 0]

MsUrl(lat, lon, z2) == <<Num(lat), Num(lon), Num(z2)>>

get_page_state_unguarded(u) ==
    IF u = <<>> THEN None
    ELSE IF Len(u) # 3 THEN None
    ELSE <<u[1].v, u[2].v, u[3].v>>

\* _get_page_state: <<lat, lon, zoom>>, or None (<<>>, which is falsy) when ms
\* is missing, does not split into three fields, or a field is no float.
get_page_state(u) ==
    IF u = <<>> THEN None
    ELSE IF Len(u) # 3 THEN None
    ELSE IF \E k \in 1 .. 3 : ~u[k].float THEN None
    ELSE <<u[1].v, u[2].v, u[3].v>>

\* ------------------------------------------------------- pan computation
PanVectorTargetAtRefZoom(state, lat, lon) ==
    LET p1 == ll_to_pixel(state[1], state[2], state[3])
        p2 == ll_to_pixel(lat, lon, RefZoom2)
    IN  <<p2[1] - p1[1], p2[2] - p1[2]>>

\* Lines 182-186: the pixel vector <<dx, dy>> from the current centre to the
\* target, both projected at the zoom z of the state just read.
PanVector(state, lat, lon) ==
    LET p1 == ll_to_pixel(state[1], state[2], state[3])
        p2 == ll_to_pixel(lat, lon, state[3])
    IN  <<p2[1] - p1[1], p2[2] - p1[2]>>

PanDist2(state, lat, lon) ==
    LET d == PanVector(state, lat, lon) IN Hypot2(d[1], d[2], state[3])

CloseEnoughStrict(dist2, tolerance_px) ==
    tolerance_px > 0 /\ dist2 < tolerance_px * tolerance_px

\* Line 189: dist <= tolerance_px.
CloseEnough(dist2, tolerance_px) == DistLeq(dist2, tolerance_px)

NeverClamped(max_drag_px, dist2) == FALSE

\* Line 193: step = min(max_drag_px, dist) takes max_drag_px, not dist.
Clamped(max_drag_px, dist2) == LessThanDist(max_drag_px, dist2)

\* Lines 193-195: mx, my = dx * r, dy * r with r = step / (dist + 1e-9).  The
\* guard 1e-9 is below the resolution of the model: it only keeps r finite
\* at dist = 0, where the vector is <<0, 0>>.
DragVector(dx, dy, z2, max_drag_px) ==
    LET dist2 == Hypot2(dx, dy, z2)
        dist  == ISqrt(dist2)
    IN  IF dist2 = 0 THEN <<0, 0>>
        ELSE IF Clamped(max_drag_px, dist2)
             THEN <<(dx * max_drag_px) \div dist, (dy * max_drag_px) \div dist>>
             ELSE <<dx, dy>>

\* The drag vector is a whole number of model units (no rounding happens in
\* DragVector): reads are drawn from the states for which it is.
Representable(dx, dy, z2, max_drag_px) ==
    LET dist2 == Hypot2(dx, dy, z2)
        dist  == ISqrt(dist2)
    IN  IF dist2 = 0 \/ ~LessThanDist(max_drag_px, dist2) THEN TRUE
        ELSE /\ dist * dist = dist2
             /\ (dx * max_drag_px) % dist = 0
             /\ (dy * max_drag_px) % dist = 0

\* Line 235: the wheel delta of one zoom step.
ScrollDirectionScaled(target_zoom, z) ==
    IF target_zoom > z THEN -WheelDelta * (target_zoom - z)
    ELSE WheelDelta * (z - target_zoom)

ScrollDirection(target_zoom, z) ==
    IF target_zoom > z THEN -WheelDelta ELSE WheelDelta

\* ------------------------------------------------------------------ state
VARIABLES
    call,          \* the entry point that was called, with its arguments
    ideal,         \* TRUE: the viewport is always readable and follows gestures exactly
    url,           \* page.url (the fields of its ms parameter)
    start,         \* page.url when the entry point was called
    rc,            \* position of human_like_recenter or grid_sweep: the await that is running
    calls,         \* the loops called so far, oldest first
    frame,         \* the arguments of the running (or last) loop
    i,             \* iterations of the running loop started so far
    pc,            \* position inside the running loop
    cur,           \* current_state of the running iteration
    mv,            \* <<mx, my>> of the running iteration
    nReads,        \* state reads made by the running loop
    nGestures,     \* drags (pan loop) or scrolls (zoom loop) begun by the running loop
    nUnavailable,  \* state reads of the running loop that returned None
    ev,            \* the last operation performed on the page or the clock
    outcome,       \* how the last loop ended: "converged" or "exhausted"
    result,        \* what the last loop, or the finished entry point, handed to its caller
    nStarved,      \* phases of human_like_recenter that ended with every read unavailable
    coords,        \* grid_sweep: the list of points it built
    pt,            \* grid_sweep: 1-based index of the point being visited
    cbs,           \* grid_sweep: the callback invocations so far and how each ended
    mouse,         \* pointer: where it is and whether the button is down
    tasks,         \* concurrent loops: the locals of each task and the operations it made
    pages,         \* concurrent loops: each page's url, button and the operations it received
    page_q,        \* worker pool: the asyncio.Queue of idle pages, head first
    workers,       \* worker pool: the position of each process_item task and the page it holds
    block_types,   \* resource blocking: the list the route handler closes over
    requests,      \* resource blocking: the routed requests and how each was resolved
    scrolled,      \* human_scroll: the sum of the vertical wheel deltas it has issued
    interceptor,   \* response interceptor: position in the handler loop and the invocations made
    bench          \* test_website: its position, its locals and the browser objects it opened

vars == <<call, ideal, url, start, rc, calls, frame, i, pc, cur, mv,
          nReads, nGestures, nUnavailable, ev, outcome, result, nStarved,
          coords, pt, cbs, mouse, tasks, pages, page_q, workers,
          block_types, requests, scrolled, interceptor, bench>>

\* Set by the caller and the environment once, at the call.
fixed == <<call, ideal, start>>

\* Changed only when a loop is called or returns.
stack == <<rc, calls, frame, outcome, result, nStarved>>

counters == <<i, nReads, nGestures, nUnavailable>>

\* Changed only by grid_sweep itself, never by the loops it awaits.
sweep == <<coords, pt, cbs>>

\* The tasks run with asyncio.gather, the worker pool and the route handler:
\* no action on the single page of the gesture controller touches them.
extras == <<scrolled, interceptor, bench>>

apart == <<tasks, pages, page_q, workers, block_types, requests, extras>>

DragFrame(lat, lon, tolerance_px, max_iterations, max_drag_px, step_count) ==
    [fn |-> "drag_to_latlon", lat |-> lat, lon |-> lon,
     tolerance_px |-> tolerance_px, max_iterations |-> max_iterations,
     max_drag_px |-> max_drag_px, step_count |-> step_count]

WheelFrame(target_zoom, max_attempts) ==
    [fn |-> "wheel_to_zoom", target_zoom |-> target_zoom,
     max_attempts |-> max_attempts]

NoFrame == [fn |-> "none"]

\* An operation on the page or the clock, tagged with the loop call making it.
Ev(kind, arg) == [kind |-> kind, arg |-> arg, call |-> Len(calls)]

\* --------------------------------------------------------- the environment
\* States a page not under the model's control may show.
ReadPoints == {<<0, 0>>, <<0, 3>>, <<0, 10>>, <<8, 6>>, <<0, 25>>}

ReadZooms == {18, 21, 24, 30}

UnavailableUrls == {<<>>, <<Num(0), Num(0)>>, <<Num(0), Junk, Num(18)>>}

AvailableUrls == {MsUrl(p[1], p[2], z) : p \in ReadPoints, z \in ReadZooms}

\* The same for the page under human_like_recenter, whose loops run with the
\* default ceilings: unreadable, on target at zoom 9, 12 and 15, off target
\* by less than the tolerance at zoom 9 and by more than max_drag_px at 15.
RecenterUrls ==
    {<<>>, MsUrl(0, 0, 18), MsUrl(0, 3, 18), MsUrl(0, 0, 24), MsUrl(0, 0, 30),
     MsUrl(0, 25, 30)}

\* The same for the page under grid_sweep, whose pan loops run with the
\* default ceilings: unreadable, or showing the centre of the sweep.
SweepUrls == {<<>>, MsUrl(call.center_lat, call.center_lon, 2 * call.zoom)}

\* What a state read may find: the page as it is when ideal, anything else
\* otherwise (the page was moved by whatever the gestures, the site and the
\* user did since the last read).
PageUrls ==
    IF ideal THEN {url}
    ELSE IF call.fn = "human_like_recenter" THEN RecenterUrls
    ELSE IF call.fn = "grid_sweep" THEN SweepUrls
    ELSE UnavailableUrls \cup AvailableUrls

\* The ideal viewport after a drag by <<mx, my>>: its centre moves by exactly
\* that pixel vector at its zoom.
DraggedUrl(u, m) ==
    LET s == get_page_state(u)
        p == ll_to_pixel(s[1], s[2], s[3])
        g == pixel_to_ll(p[1] + m[1], p[2] + m[2], s[3])
    IN  MsUrl(g[1], g[2], s[3])

\* The ideal viewport after a wheel event: one level in for a negative
\* delta, one level out for a positive one.
ScrolledUrl(u, delta_y) ==
    LET s == get_page_state(u)
    IN  MsUrl(s[1], s[2], IF delta_y < 0 THEN s[3] + 2 ELSE s[3] - 2)

\* ------------------------------------------------------ human_like_recenter
\* Lines 125-128: the coarse zoom level of the first phase.
RandOut(zoom, randomize) ==
    IF randomize THEN RandOutMin .. RandOutMax
    ELSE {IF zoom - FixedOutOffset > RandOutMin THEN zoom - FixedOutOffset
          ELSE RandOutMin}

NextPhase(p) ==
    CASE p = "zoom_out" -> "pan"
      [] p = "pan"      -> "zoom_in"
      [] p = "zoom_in"  -> "fine_pan"
      [] OTHER          -> "done"

SweepZoomFrame(lat, lon) == WheelFrame(call.zoom, DefaultMaxAttempts)

DefaultDrag(lat, lon) ==
    DragFrame(lat, lon, DefaultTolerancePx, DefaultMaxIterations,
              DefaultMaxDragPx, DefaultStepCount)

PhaseFrameZoomFirst(p) ==
    CASE p = "pan"      -> WheelFrame(call.zoom, DefaultMaxAttempts)
      [] p = "zoom_in"  -> DefaultDrag(call.lat, call.lon)
      [] OTHER          -> DefaultDrag(call.lat, call.lon)

\* Lines 132, 135, 138: the loop each later phase awaits, with its defaults.
PhaseFrame(p) ==
    CASE p = "pan"      -> DefaultDrag(call.lat, call.lon)
      [] p = "zoom_in"  -> WheelFrame(call.zoom, DefaultMaxAttempts)
      [] OTHER          -> DefaultDrag(call.lat, call.lon)

ReturnTagged(o) == [kind |-> "returned", value |-> o]

ReturnRaisedWhenExhausted(o) ==
    IF o = "exhausted" THEN [kind |-> "raised", value |-> "Exhausted"]
    ELSE [kind |-> "returned", value |-> "None"]

\* What a loop hands to its caller: both the return of lines 190 / 231 and
\* the end of the function body return None, and nothing is raised.
ReturnValue(o) == [kind |-> "returned", value |-> "None"]

LoopHasNextOrLast(k, n) == k <= n

\* for _ in range(n), lines 172 and 221: there is a next iteration after k.
LoopHasNext(k, n) == k < n

AfterPanStopsWhenExhausted ==
    IF outcome' = "exhausted" THEN "done"
    ELSE IF call.action_callback # "None" THEN "sweep_callback"
    ELSE "sweep_dwell"

\* Lines 335-338: where grid_sweep goes on when the pan loop of a point has
\* returned: to the callback if a truthy one was passed, else to the dwell.
AfterPan ==
    IF call.action_callback # "None" THEN "sweep_callback" ELSE "sweep_dwell"

PhaseStartCountCarried(i1) == i1

\* for _ in range(...) of the loop a phase awaits starts its own count: what
\* the loop before it used (i1) plays no part.
PhaseStartCount(i1) == 0

\* A loop returns (lines 190, 231, or the end of the for): inside
\* human_like_recenter the next await starts its loop at once, inside
\* grid_sweep the statement after the await is next, otherwise the entry
\* point is done.  i1, n1, c1: the loop's own i, nReads, cur at return.
Return(o, i1, n1, c1) ==
    /\ outcome' = o
    /\ result' = ReturnValue(o)
    /\ nStarved' = IF /\ rc \in {"zoom_out", "pan", "zoom_in", "fine_pan"}
                      /\ o = "exhausted" /\ nUnavailable = i1
                   THEN nStarved + 1 ELSE nStarved
    /\ IF rc \in {"zoom_out", "pan", "zoom_in"}
       THEN /\ rc' = NextPhase(rc)
            /\ frame' = PhaseFrame(NextPhase(rc))
            /\ calls' = Append(calls, PhaseFrame(NextPhase(rc)))
            /\ i' = PhaseStartCount(i1)
            /\ nReads' = 0
            /\ nGestures' = 0
            /\ nUnavailable' = 0
            /\ pc' = "loop"
            /\ cur' = None
            /\ mv' = <<0, 0>>
       ELSE /\ rc' = CASE rc = "fine_pan"  -> "done"
                       [] rc = "sweep_pan" -> AfterPan
                       [] OTHER            -> rc
            /\ frame' = frame
            /\ calls' = calls
            /\ i' = i1
            /\ nReads' = n1
            /\ nGestures' = nGestures
            /\ nUnavailable' = nUnavailable
            /\ pc' = "done"
            /\ cur' = c1
            /\ mv' = mv

UnavailableKeepsState ==
    /\ pc' = "backoff"
    /\ i' = i + 1
    /\ nReads' = nReads + 1
    /\ nUnavailable' = nUnavailable + 1
    /\ cur' = cur
    /\ UNCHANGED <<stack, mv, nGestures>>

\* An exception leaves the running loop and, uncaught, every caller up to
\* the entry point.  i1, n1, c1 as in Return.
Raised(e, i1, n1, c1) ==
    /\ outcome' = "raised"
    /\ result' = [kind |-> "raised", value |-> e]
    /\ rc' = IF rc = "none" THEN rc ELSE "raised"
    /\ pc' = "done"
    /\ i' = i1
    /\ nReads' = n1
    /\ cur' = c1
    /\ UNCHANGED <<frame, calls, nStarved, mv, nGestures, nUnavailable>>

\* A state read came back None (lines 175-177, 223-225): back off.
Unavailable ==
    /\ pc' = "backoff"
    /\ i' = i + 1
    /\ nReads' = nReads + 1
    /\ nUnavailable' = nUnavailable + 1
    /\ cur' = None
    /\ UNCHANGED <<stack, mv, nGestures>>

\* Lines 125-129: pick the coarse level and await wheel_to_zoom(page, rand_out).
RecenterStart ==
    /\ rc = "start"
    /\ \E rand_out \in RandOut(call.zoom, call.randomize) :
         /\ frame' = WheelFrame(rand_out, DefaultMaxAttempts)
         /\ calls' = Append(calls, WheelFrame(rand_out, DefaultMaxAttempts))
    /\ rc' = "zoom_out"
    /\ pc' = "loop"
    /\ UNCHANGED <<fixed, apart, sweep, counters, url, cur, mv, ev, outcome,
                   result, nStarved, mouse>>

\* ----------------------------------------------------------- drag_to_latlon
InDrag == frame.fn = "drag_to_latlon"

DragStepNoRelease(p) ==
    CASE p = "move_anchor" -> "mouse_down"
      [] p = "mouse_down"  -> "drag_move"
      [] p = "drag_move"   -> "settle"
      [] OTHER             -> "loop"

DragStepReleaseFirst(p) ==
    CASE p = "move_anchor" -> "mouse_down"
      [] p = "mouse_down"  -> "mouse_up"
      [] p = "mouse_up"    -> "drag_move"
      [] p = "drag_move"   -> "settle"
      [] OTHER             -> "loop"

\* Lines 198-204: the statement that follows each await of the gesture.
DragStep(p) ==
    CASE p = "move_anchor" -> "mouse_down"
      [] p = "mouse_down"  -> "drag_move"
      [] p = "drag_move"   -> "mouse_up"
      [] p = "mouse_up"    -> "settle"
      [] OTHER             -> "loop"

\* Lines 172-195: the next iteration begins; read the state, then back off,
\* fail in the projection, return, or compute the clamped drag vector.
DragRead ==
    /\ InDrag /\ pc = "loop" /\ LoopHasNext(i, frame.max_iterations)
    /\ \E u \in PageUrls :
         LET s == get_page_state(u)
             d == PanVector(s, frame.lat, frame.lon)
             f == IF s = None THEN FALSE
                  ELSE ProjectionFails(s[1]) \/ ProjectionFails(frame.lat)
         IN  /\ (s # None /\ ~f)
                => Representable(d[1], d[2], s[3], frame.max_drag_px)
             /\ url' = u
             /\ ev' = Ev("read", 0)
             /\ IF s = None
                THEN Unavailable
                ELSE IF f
                THEN Raised(ProjectionError(IF ProjectionFails(s[1]) THEN s[1]
                                            ELSE frame.lat),
                            i + 1, nReads + 1, s)
                ELSE IF CloseEnough(PanDist2(s, frame.lat, frame.lon),
                                    frame.tolerance_px)
                THEN Return("converged", i + 1, nReads + 1, s)
                ELSE /\ pc' = "move_anchor"
                     /\ i' = i + 1
                     /\ nReads' = nReads + 1
                     /\ cur' = s
                     /\ mv' = DragVector(d[1], d[2], s[3], frame.max_drag_px)
                     /\ UNCHANGED <<stack, nGestures, nUnavailable>>
    /\ UNCHANGED <<fixed, apart, sweep, mouse>>

\* Lines 176-177: await asyncio.sleep(0.3); continue.
DragBackoff ==
    /\ InDrag /\ pc = "backoff"
    /\ ev' = Ev("sleep", 0)
    /\ pc' = "loop"
    /\ UNCHANGED <<fixed, apart, sweep, stack, counters, url, cur, mv, mouse>>

\* Line 198: page.mouse.move(960, 540); the drag of this iteration begins.
DragMoveAnchor ==
    /\ InDrag /\ pc = "move_anchor"
    /\ mouse' = [mouse EXCEPT !.at = "anchor"]
    /\ ev' = Ev("mouse_move", 1)
    /\ nGestures' = nGestures + 1
    /\ pc' = DragStep(pc)
    /\ UNCHANGED <<fixed, apart, sweep, stack, i, nReads, nUnavailable, url, cur, mv>>

\* Line 199: page.mouse.down().
DragMouseDown ==
    /\ InDrag /\ pc = "mouse_down"
    /\ mouse' = [mouse EXCEPT !.down = TRUE]
    /\ ev' = Ev("mouse_down", 0)
    /\ pc' = DragStep(pc)
    /\ UNCHANGED <<fixed, apart, sweep, stack, counters, url, cur, mv>>

\* Line 200: page.mouse.move(960 - mx, 540 - my, steps=step_count); the ideal
\* viewport follows the pressed pointer.
DragMouseMove ==
    /\ InDrag /\ pc = "drag_move"
    /\ mouse' = [mouse EXCEPT !.at = "anchor_minus_mv"]
    /\ ev' = Ev("mouse_move", frame.step_count)
    /\ url' = IF ideal /\ mouse.down THEN DraggedUrl(url, mv) ELSE url
    /\ pc' = DragStep(pc)
    /\ UNCHANGED <<fixed, apart, sweep, stack, counters, cur, mv>>

\* Line 201: page.mouse.up().
DragMouseUp ==
    /\ InDrag /\ pc = "mouse_up"
    /\ mouse' = [mouse EXCEPT !.down = FALSE]
    /\ ev' = Ev("mouse_up", 0)
    /\ pc' = DragStep(pc)
    /\ UNCHANGED <<fixed, apart, sweep, stack, counters, url, cur, mv>>

\* Line 204: await asyncio.sleep(0.35), then the next iteration.
DragSettle ==
    /\ InDrag /\ pc = "settle"
    /\ ev' = Ev("sleep", 0)
    /\ pc' = DragStep(pc)
    /\ UNCHANGED <<fixed, apart, sweep, stack, counters, url, cur, mv, mouse>>

\* Line 172: range(max_iterations) is used up; the function falls off its end.
DragExhausted ==
    /\ InDrag /\ pc = "loop" /\ ~LoopHasNext(i, frame.max_iterations)
    /\ Return("exhausted", i, nReads, cur)
    /\ UNCHANGED <<fixed, apart, sweep, url, ev, mouse>>

DragNext ==
    \/ DragRead
    \/ DragBackoff
    \/ DragMoveAnchor
    \/ DragMouseDown
    \/ DragMouseMove
    \/ DragMouseUp
    \/ DragSettle
    \/ DragExhausted

\* ------------------------------------------------------------ wheel_to_zoom
InWheel == frame.fn = "wheel_to_zoom"

\* Lines 221-231: the next attempt begins; read the state, then back off,
\* return, or go on to scroll.
WheelRead ==
    /\ InWheel /\ pc = "loop" /\ LoopHasNext(i, frame.max_attempts)
    /\ \E u \in PageUrls :
         LET s == get_page_state(u)
         IN  /\ url' = u
             /\ ev' = Ev("read", 0)
             /\ IF s = None
                THEN Unavailable
                ELSE IF round(s[3]) = frame.target_zoom
                THEN Return("converged", i + 1, nReads + 1, s)
                ELSE /\ pc' = "move_anchor"
                     /\ i' = i + 1
                     /\ nReads' = nReads + 1
                     /\ cur' = s
                     /\ UNCHANGED <<stack, mv, nGestures, nUnavailable>>
    /\ UNCHANGED <<fixed, apart, sweep, mouse>>

\* Lines 224-225: await asyncio.sleep(0.3); continue.
WheelBackoff ==
    /\ InWheel /\ pc = "backoff"
    /\ ev' = Ev("sleep", 0)
    /\ pc' = "loop"
    /\ UNCHANGED <<fixed, apart, sweep, stack, counters, url, cur, mv, mouse>>

\* Line 234: page.mouse.move(960, 540).
WheelMoveAnchor ==
    /\ InWheel /\ pc = "move_anchor"
    /\ mouse' = [mouse EXCEPT !.at = "anchor"]
    /\ ev' = Ev("mouse_move", 1)
    /\ pc' = "wheel"
    /\ UNCHANGED <<fixed, apart, sweep, stack, counters, url, cur, mv>>

\* Lines 235-236: page.mouse.wheel(0, scroll_direction); the ideal viewport
\* steps one level.
WheelScroll ==
    /\ InWheel /\ pc = "wheel"
    /\ LET scroll_direction == ScrollDirection(frame.target_zoom, round(cur[3]))
       IN  /\ ev' = Ev("mouse_wheel", scroll_direction)
           /\ url' = IF ideal THEN ScrolledUrl(url, scroll_direction) ELSE url
    /\ nGestures' = nGestures + 1
    /\ pc' = "delay"
    /\ UNCHANGED <<fixed, apart, sweep, stack, i, nReads, nUnavailable, cur, mv, mouse>>

\* Line 237: await asyncio.sleep(step_delay), then the next attempt.
WheelDelay ==
    /\ InWheel /\ pc = "delay"
    /\ ev' = Ev("sleep", 0)
    /\ pc' = "loop"
    /\ UNCHANGED <<fixed, apart, sweep, stack, counters, url, cur, mv, mouse>>

\* Line 221: range(max_attempts) is used up; the function falls off its end.
WheelExhausted ==
    /\ InWheel /\ pc = "loop" /\ ~LoopHasNext(i, frame.max_attempts)
    /\ Return("exhausted", i, nReads, cur)
    /\ UNCHANGED <<fixed, apart, sweep, url, ev, mouse>>

WheelNext ==
    \/ WheelRead
    \/ WheelBackoff
    \/ WheelMoveAnchor
    \/ WheelScroll
    \/ WheelDelay
    \/ WheelExhausted

\* --------------------------------------------------------------- grid_sweep
RECURSIVE RowOffsetsWithEdges(_, _)
RowOffsetsWithEdges(r, dx) ==
    IF dx >= r + 1 THEN <<>>
    ELSE (IF dx = -r \/ dx = r
          THEN [n \in 1 .. 2 * r + 1 |-> [r |-> r, dx |-> dx, dy |-> n - r - 1]]
          ELSE <<[r |-> r, dx |-> dx, dy |-> -r], [r |-> r, dx |-> dx, dy |-> r]>>)
         \o RowOffsetsWithEdges(r, dx + 1)

RECURSIVE RowOffsetsShort(_, _)
RowOffsetsShort(r, dx) ==
    IF dx >= r THEN <<>>
    ELSE <<[r |-> r, dx |-> dx, dy |-> -r], [r |-> r, dx |-> dx, dy |-> r]>>
         \o RowOffsetsShort(r, dx + 1)

RECURSIVE RowOffsetsBottomFirst(_, _)
RowOffsetsBottomFirst(r, dx) ==
    IF dx >= r + 1 THEN <<>>
    ELSE <<[r |-> r, dx |-> dx, dy |-> r], [r |-> r, dx |-> dx, dy |-> -r]>>
         \o RowOffsetsBottomFirst(r, dx + 1)

RECURSIVE RowOffsets(_, _)
\* Lines 323-324: for dx in range(dx, r + 1): for dy in (-r, r).
RowOffsets(r, dx) ==
    IF dx >= r + 1 THEN <<>>
    ELSE <<[r |-> r, dx |-> dx, dy |-> -r], [r |-> r, dx |-> dx, dy |-> r]>>
         \o RowOffsets(r, dx + 1)

RECURSIVE RingOffsets(_, _)
\* Line 322: for r in range(r, rings + 1), each ring from dx = -r.
RingOffsets(r, rings) ==
    IF r >= rings + 1 THEN <<>>
    ELSE RowOffsets(r, -r) \o RingOffsets(r + 1, rings)

\* Lines 318-326: coords, the <<lat, lon>> of every offset in loop order, each
\* offset scaled by step_px from the centre's pixel at the sweep's zoom.
SweepCoords(center_lat, center_lon, zoom, rings, step_px) ==
    LET c    == ll_to_pixel(center_lat, center_lon, 2 * zoom)
        offs == RingOffsets(1, rings)
    IN  [n \in 1 .. Len(offs) |->
           pixel_to_ll(c[1] + offs[n].dx * step_px,
                       c[2] + offs[n].dy * step_px, 2 * zoom)]

\* Lines 330-332: the for loop takes point n of cs and awaits
\* drag_to_latlon(page, lat_, lon_) with its defaults.
VisitPoint(cs, n) ==
    /\ pt' = n
    /\ frame' = DefaultDrag(cs[n][1], cs[n][2])
    /\ calls' = Append(calls, DefaultDrag(cs[n][1], cs[n][2]))
    /\ rc' = "sweep_pan"
    /\ pc' = "loop"
    /\ i' = 0
    /\ nReads' = 0
    /\ nGestures' = 0
    /\ nUnavailable' = 0
    /\ cur' = None
    /\ mv' = <<0, 0>>

\* grid_sweep is over (the for loop of line 330 has no further point).
SweepReturns ==
    /\ rc' = "done"
    /\ result' = ReturnValue("swept")
    /\ UNCHANGED <<pt, frame, calls, pc, counters, cur, mv>>

\* Lines 318-332: build coords, then start on the first point.
SweepStart ==
    /\ rc = "sweep_start"
    /\ LET cs == SweepCoords(call.center_lat, call.center_lon, call.zoom,
                             call.rings, call.step_px)
       IN  /\ coords' = cs
           /\ IF Len(cs) > 0
              THEN VisitPoint(cs, 1) /\ UNCHANGED result
              ELSE SweepReturns
    /\ UNCHANGED <<fixed, apart, url, ev, outcome, nStarved, cbs, mouse>>

CallbackArgsZeroBased(n) ==
    [lat |-> coords[n][1], lon |-> coords[n][2], index |-> n - 1,
     total |-> Len(coords)]

\* Line 336: what the callback is passed for point n, besides the page:
\* lat_, lon_, i (counted from 1 by enumerate) and total = len(coords).
CallbackArgs(n) ==
    [lat |-> coords[n][1], lon |-> coords[n][2], index |-> n,
     total |-> Len(coords)]

CallbackAbsorbed(raises) == "sweep_dwell"

\* An exception raised by the awaited callback leaves grid_sweep, which has
\* no try around line 336; a callback that returns is followed by the dwell.
AfterCallback(raises) == IF raises THEN "raised" ELSE "sweep_dwell"

\* Lines 335-336: await action_callback(page, lat_, lon_, i, total); the
\* callback is the caller's code and returns or raises as it likes.
SweepCallback ==
    /\ rc = "sweep_callback"
    /\ ev' = Ev("callback", pt)
    /\ \E raises \in BOOLEAN :
         /\ cbs' = Append(cbs, [args |-> CallbackArgs(pt), raised |-> raises])
         /\ rc' = AfterCallback(raises)
         /\ result' = IF AfterCallback(raises) = "raised"
                      THEN [kind |-> "raised", value |-> "callback"]
                      ELSE result
    /\ UNCHANGED <<fixed, apart, coords, pt, calls, frame, outcome, nStarved,
                   counters, pc, url, cur, mv, mouse>>

\* Line 338, then lines 330-332 again: await asyncio.sleep(dwell_s), then the
\* next point, or the end of the list.
SweepDwell ==
    /\ rc = "sweep_dwell"
    /\ ev' = Ev("dwell", pt)
    /\ IF pt < Len(coords)
       THEN VisitPoint(coords, pt + 1) /\ UNCHANGED result
       ELSE SweepReturns
    /\ UNCHANGED <<fixed, apart, coords, cbs, url, outcome, nStarved, mouse>>

\* ------------------------------------------------- the loops as tasks
\* What the tasks, the pool and the route handler leave alone: the single
\* page of the gesture controller and everything the controller keeps.
controller == <<call, ideal, start, stack, counters, sweep, url, pc, cur, mv,
                ev, mouse>>

\* A task running drag_to_latlon or wheel_to_zoom: the page it was passed,
\* its arguments, its locals, and the operations it has made so far.
Task(page, f) ==
    [page |-> page, frame |-> f, i |-> 0, pc |-> "loop", cur |-> None,
     mv |-> <<0, 0>>, trace |-> <<>>]

\* A page that follows the gestures made on it exactly.
Page(u) == [url |-> u, down |-> FALSE, log |-> <<>>]

Op(kind, arg) == [kind |-> kind, arg |-> arg]

\* The task tk has run to its next await on the page pg and made op.
Stepped(tk, pg, op) ==
    [task |-> [tk EXCEPT !.trace = IF op.kind = "none" THEN @
                                   ELSE Append(@, op)],
     page |-> pg,
     op   |-> op]

\* Lines 172-204, one await at a time.
DragTaskStep(tk, pg) ==
    LET f == tk.frame
        s == get_page_state(pg.url)
        d == PanVector(s, f.lat, f.lon)
    IN  IF tk.pc = "loop"
        THEN IF ~LoopHasNext(tk.i, f.max_iterations)
             THEN Stepped([tk EXCEPT !.pc = "done"], pg, Op("none", 0))
             ELSE IF s = None
             THEN Stepped([tk EXCEPT !.pc = "backoff", !.i = @ + 1], pg,
                          Op("read", 0))
             ELSE IF CloseEnough(PanDist2(s, f.lat, f.lon), f.tolerance_px)
             THEN Stepped([tk EXCEPT !.pc = "done", !.i = @ + 1, !.cur = s],
                          pg, Op("read", 0))
             ELSE Stepped([tk EXCEPT !.pc = "move_anchor", !.i = @ + 1,
                                     !.cur = s,
                                     !.mv = DragVector(d[1], d[2], s[3],
                                                       f.max_drag_px)],
                          pg, Op("read", 0))
        ELSE IF tk.pc = "backoff"
        THEN Stepped([tk EXCEPT !.pc = "loop"], pg, Op("sleep", 0))
        ELSE IF tk.pc = "move_anchor"
        THEN Stepped([tk EXCEPT !.pc = DragStep(@)], pg,
                     Op("mouse_move", <<0, 0>>))
        ELSE IF tk.pc = "mouse_down"
        THEN Stepped([tk EXCEPT !.pc = DragStep(@)],
                     [pg EXCEPT !.down = TRUE], Op("mouse_down", 0))
        ELSE IF tk.pc = "drag_move"
        THEN Stepped([tk EXCEPT !.pc = DragStep(@)],
                     [pg EXCEPT !.url = IF pg.down /\ s # None
                                        THEN DraggedUrl(@, tk.mv) ELSE @],
                     Op("mouse_move", tk.mv))
        ELSE IF tk.pc = "mouse_up"
        THEN Stepped([tk EXCEPT !.pc = DragStep(@)],
                     [pg EXCEPT !.down = FALSE], Op("mouse_up", 0))
        ELSE Stepped([tk EXCEPT !.pc = DragStep(@)], pg, Op("sleep", 0))

\* Lines 221-237, one await at a time.
WheelTaskStep(tk, pg) ==
    LET f == tk.frame
        s == get_page_state(pg.url)
        scroll_direction == ScrollDirection(f.target_zoom, round(tk.cur[3]))
    IN  IF tk.pc = "loop"
        THEN IF ~LoopHasNext(tk.i, f.max_attempts)
             THEN Stepped([tk EXCEPT !.pc = "done"], pg, Op("none", 0))
             ELSE IF s = None
             THEN Stepped([tk EXCEPT !.pc = "backoff", !.i = @ + 1], pg,
                          Op("read", 0))
             ELSE IF round(s[3]) = f.target_zoom
             THEN Stepped([tk EXCEPT !.pc = "done", !.i = @ + 1, !.cur = s],
                          pg, Op("read", 0))
             ELSE Stepped([tk EXCEPT !.pc = "move_anchor", !.i = @ + 1,
                                     !.cur = s],
                          pg, Op("read", 0))
        ELSE IF tk.pc = "backoff"
        THEN Stepped([tk EXCEPT !.pc = "loop"], pg, Op("sleep", 0))
        ELSE IF tk.pc = "move_anchor"
        THEN Stepped([tk EXCEPT !.pc = "wheel"], pg,
                     Op("mouse_move", <<0, 0>>))
        ELSE IF tk.pc = "wheel"
        THEN Stepped([tk EXCEPT !.pc = "delay"],
                     [pg EXCEPT !.url = IF s # None
                                        THEN ScrolledUrl(@, scroll_direction)
                                        ELSE @],
                     Op("mouse_wheel", scroll_direction))
        ELSE Stepped([tk EXCEPT !.pc = "loop"], pg, Op("sleep", 0))

TaskStep(tk, pg) ==
    IF tk.frame.fn = "drag_to_latlon" THEN DragTaskStep(tk, pg)
    ELSE WheelTaskStep(tk, pg)

PageOfFirstTask(t) == tasks[1].page

\* The page parameter of task t: the object every page.mouse call and every
\* state read of the loop goes to.
PageOf(t) == tasks[t].page

\* The event loop resumes task t, which runs to its next await.
Resume(t) ==
    /\ tasks[t].pc # "done"
    /\ LET p == PageOf(t)
           r == TaskStep(tasks[t], pages[p])
       IN  /\ tasks' = [tasks EXCEPT ![t] = r.task]
           /\ pages' = [pages EXCEPT ![p] =
                          IF r.op.kind \in {"none", "sleep"} THEN r.page
                          ELSE [r.page EXCEPT !.log =
                                  Append(@, [by |-> t, kind |-> r.op.kind])]]
    /\ UNCHANGED <<controller, page_q, workers, block_types, requests, extras>>

NextGather == \E t \in DOMAIN tasks : Resume(t)

\* ----------------------------------------------------- the worker pool
create_worker_pool_unguarded(worker_count) ==
    [k \in 1 .. worker_count |-> k]

\* Lines 501-513 of create_worker_pool: the queue it returns holds
\* max(1, worker_count) pages, in the order they were opened.
create_worker_pool(worker_count) ==
    [k \in 1 .. max(1, worker_count) |-> k]

\* asyncio.Queue: get() hands out the head and removes it, put() appends.
QueueAfterGetKeepsHead(q) == q

QueueAfterGet(q) == Tail(q)

QueueAfterPutDropped(q, item) == q

QueueAfterPut(q, item) == Append(q, item)

\* The task holds a page: worker_pool.get() has returned and the put() of
\* the finally clause has not run yet.
Holding(w) == w.pc \in {"goto", "think", "title", "put"}

others == <<controller, tasks, pages, block_types, requests, extras>>

\* anti_bot_example.py line 116: worker_page = await worker_pool.get(),
\* which waits while the queue is empty.
ItemGet ==
  \E t \in DOMAIN workers :
    /\ workers[t].pc = "get"
    /\ page_q # <<>>
    /\ workers' = [workers EXCEPT ![t] = [@ EXCEPT !.pc = "goto",
                                                   !.page = Head(page_q)]]
    /\ page_q' = QueueAfterGet(page_q)
    /\ UNCHANGED others

\* Lines 119-122: await worker_page.goto(...), which may raise.
ItemGoto ==
  \E t \in DOMAIN workers :
    /\ workers[t].pc = "goto"
    /\ \E raises \in BOOLEAN :
         workers' = [workers EXCEPT ![t] =
                       [@ EXCEPT !.pc = IF raises THEN "put" ELSE "think",
                                 !.raised = raises]]
    /\ UNCHANGED <<others, page_q>>

\* Line 123: await human_think_time(0.5, 1.5).
ItemThink ==
  \E t \in DOMAIN workers :
    /\ workers[t].pc = "think"
    /\ workers' = [workers EXCEPT ![t] = [@ EXCEPT !.pc = "title"]]
    /\ UNCHANGED <<others, page_q>>

\* Lines 125-127: title = await worker_page.title(), which may raise; then
\* return title.
ItemTitle ==
  \E t \in DOMAIN workers :
    /\ workers[t].pc = "title"
    /\ \E raises \in BOOLEAN :
         workers' = [workers EXCEPT ![t] = [@ EXCEPT !.pc = "put",
                                                     !.raised = raises]]
    /\ UNCHANGED <<others, page_q>>

\* Lines 129-130: finally: await worker_pool.put(worker_page); the task then
\* returns or re-raises.
ItemPut ==
  \E t \in DOMAIN workers :
    /\ workers[t].pc = "put"
    /\ page_q' = QueueAfterPut(page_q, workers[t].page)
    /\ workers' = [workers EXCEPT ![t] = [@ EXCEPT !.pc = "done"]]
    /\ UNCHANGED others

NextPool == ItemGet \/ ItemGoto \/ ItemThink \/ ItemTitle \/ ItemPut

\* ------------------------------------------------- resource blocking
\* Line 380: the list used when block_types is None.
DefaultBlockTypes == <<"image", "media", "font">>

\* rt in block_types, for a list.
InList(rt, list) == \E k \in 1 .. Len(list) : list[k] = rt

\* Lines 379-388: setup_resource_blocking(ctx, block_types) fixes the list
\* and installs _route for every URL.
SetupResourceBlocking ==
    /\ call.fn = "setup_resource_blocking"
    /\ ~block_types.installed
    /\ block_types' = [installed |-> TRUE,
                       list |-> IF call.block_types = "None"
                                THEN DefaultBlockTypes
                                ELSE call.block_types]
    /\ UNCHANGED <<controller, tasks, pages, page_q, workers, requests, extras>>

\* The context hands a request of some resource type to _route.
Routed ==
    /\ call.fn = "setup_resource_blocking"
    /\ block_types.installed
    /\ Len(requests) < MaxRequests
    /\ \E rt \in call.resource_types :
         requests' = Append(requests, [rt |-> rt, aborted |-> 0,
                                       continued |-> 0])
    /\ UNCHANGED <<controller, tasks, pages, page_q, workers, block_types,
                   extras>>

\* Lines 382-386, _route(route) for a request handed to it: abort if its
\* resource type is in the list, continue otherwise.
RouteHandler ==
    /\ \E k \in 1 .. Len(requests) :
         /\ requests[k].aborted + requests[k].continued = 0
         /\ requests' = [requests EXCEPT ![k] =
                           IF InList(@.rt, block_types.list)
                           THEN [@ EXCEPT !.aborted = @ + 1]
                           ELSE [@ EXCEPT !.continued = @ + 1]]
    /\ UNCHANGED <<controller, tasks, pages, page_q, workers, block_types,
                   extras>>

NextRoute == SetupResourceBlocking \/ Routed \/ RouteHandler

\* ------------------------------------------------------- human_scroll
\* Line 257: step_size = distance_px // pauses, Python floor division.
StepSize(distance_px, pauses) == distance_px \div pauses

\* Line 258: scroll_delta = -1 if direction == "up" else 1.
ScrollDelta(direction) == IF direction = "up" THEN -1 ELSE 1

InScroll == call.fn = "human_scroll"

\* What human_scroll leaves alone: it keeps a loop count and issues wheel
\* events, nothing else.
beside == <<fixed, tasks, pages, page_q, workers, block_types, requests,
            interceptor, bench, sweep, stack, nReads, nUnavailable, url, cur,
            mv, mouse>>

\* Line 261: await page.mouse.wheel(0, scroll_delta * step_size).
ScrollWheel ==
    /\ InScroll /\ pc = "loop" /\ LoopHasNext(i, call.pauses)
    /\ LET delta_y == ScrollDelta(call.direction)
                      * StepSize(call.distance_px, call.pauses)
       IN  /\ ev' = Ev("mouse_wheel", delta_y)
           /\ scrolled' = scrolled + delta_y
    /\ i' = i + 1
    /\ nGestures' = nGestures + 1
    /\ pc' = "pause"
    /\ UNCHANGED beside

\* Line 262: await asyncio.sleep(duration_ms / (pauses * 1000)).
ScrollPause ==
    /\ InScroll /\ pc = "pause"
    /\ ev' = Ev("sleep", 0)
    /\ pc' = "loop"
    /\ UNCHANGED <<beside, i, nGestures, scrolled>>

\* Line 260: range(pauses) is used up; the function returns.
ScrollReturns ==
    /\ InScroll /\ pc = "loop" /\ ~LoopHasNext(i, call.pauses)
    /\ pc' = "done"
    /\ UNCHANGED <<beside, i, nGestures, scrolled, ev>>

NextScroll == ScrollWheel \/ ScrollPause \/ ScrollReturns

\* ------------------------------------------- create_response_interceptor
\* Strings are sequences of characters.  Line 538, pattern in url: the
\* pattern occurs in the url at some offset.
Contains(pattern, u) ==
    \E off \in 0 .. Len(u) - Len(pattern) :
        \A k \in 1 .. Len(pattern) : u[off + k] = pattern[k]

InIntercept == call.fn = "_handle_response"

\* What _handle_response leaves alone: it walks the dict and calls handlers.
aside == <<fixed, tasks, pages, page_q, workers, block_types, requests,
           scrolled, bench, sweep, stack, nReads, nGestures, nUnavailable, url,
           cur, mv, ev, mouse>>

\* An entry of the log of what the handler loop did.
Did(op, pattern) == [op |-> op, pattern |-> pattern]

\* Lines 541-542: except Exception catches what the handler raised and
\* prints; the for loop goes on.
AfterHandlerErrorPropagates == "raised"

AfterHandlerError == "loop"

\* Lines 537-538: the next item of handlers.items(), in insertion order; its
\* pattern does not occur in the url.
InterceptSkip ==
    /\ InIntercept /\ pc = "loop" /\ LoopHasNext(i, Len(call.handlers))
    /\ ~Contains(call.handlers[i + 1], call.url)
    /\ i' = i + 1
    /\ UNCHANGED <<aside, pc, interceptor>>

\* Lines 537-540: the pattern occurs in the url; handler(response) is called
\* and awaited.
InterceptCall ==
    /\ InIntercept /\ pc = "loop" /\ LoopHasNext(i, Len(call.handlers))
    /\ Contains(call.handlers[i + 1], call.url)
    /\ interceptor' = Append(interceptor, Did("call", call.handlers[i + 1]))
    /\ pc' = "handler"
    /\ UNCHANGED <<aside, i>>

\* Line 540: the awaited handler returns.
HandlerReturns ==
    /\ InIntercept /\ pc = "handler"
    /\ i' = i + 1
    /\ pc' = "loop"
    /\ UNCHANGED <<aside, interceptor>>

\* Lines 540-542: the call or the awaited handler raises an Exception.
HandlerRaises ==
    /\ InIntercept /\ pc = "handler"
    /\ interceptor' = Append(interceptor, Did("print", call.handlers[i + 1]))
    /\ i' = i + 1
    /\ pc' = AfterHandlerError
    /\ UNCHANGED aside

\* Line 537: the dict is used up; _handle_response returns.
InterceptReturns ==
    /\ InIntercept /\ pc = "loop" /\ ~LoopHasNext(i, Len(call.handlers))
    /\ pc' = "done"
    /\ UNCHANGED <<aside, i, interceptor>>

NextIntercept ==
    \/ InterceptSkip
    \/ InterceptCall
    \/ HandlerReturns
    \/ HandlerRaises
    \/ InterceptReturns

\* ------------------------------------------ BenchmarkTester.test_website
InBench == call.fn = "test_website"

\* What test_website leaves alone.
outside == <<fixed, tasks, pages, page_q, workers, block_types, requests,
             scrolled, interceptor, sweep, stack, counters, url, cur, mv, ev,
             mouse>>

\* Lines 45-56: DetectionIndicators, every flag False by default.  The flags
\* has_error_page and has_bot_detection_text only feed the notes.
NoIndicators ==
    [has_cloudflare_challenge |-> FALSE, has_akamai_challenge |-> FALSE,
     has_recaptcha |-> FALSE, has_hcaptcha |-> FALSE,
     has_cloudflare_turnstile |-> FALSE, has_access_denied |-> FALSE,
     has_rate_limit |-> FALSE]

\* Lines 117-151: detect_challenges sets a flag for each group of selectors
\* of which one is found on the page, and catches what a selector raises.
Detections == [DOMAIN NoIndicators -> BOOLEAN]

\* Line 200: response.status if response else None; None is <<>> and a
\* status n is <<n>>.
HttpStatuses == {None, <<200>>, <<403>>, <<404>>, <<429>>, <<503>>}

\* Lines 210-216.
Success(detection, http_status) ==
    /\ ~detection.has_cloudflare_challenge
    /\ ~detection.has_akamai_challenge
    /\ ~detection.has_access_denied
    /\ ~detection.has_rate_limit
    /\ http_status \notin {<<403>>, <<429>>, <<503>>}

\* Lines 218-222.
CaptchaPresent(detection) ==
    \/ detection.has_recaptcha
    \/ detection.has_hcaptcha
    \/ detection.has_cloudflare_turnstile

ChallengeTypeCaptchaFirst(detection) ==
    IF detection.has_recaptcha THEN "reCAPTCHA"
    ELSE IF detection.has_hcaptcha THEN "hCaptcha"
    ELSE IF detection.has_cloudflare_turnstile THEN "Cloudflare Turnstile"
    ELSE IF detection.has_cloudflare_challenge THEN "Cloudflare"
    ELSE IF detection.has_akamai_challenge THEN "Akamai"
    ELSE "None"

\* Lines 224-234: the if / elif chain.
ChallengeType(detection) ==
    IF detection.has_cloudflare_challenge THEN "Cloudflare"
    ELSE IF detection.has_akamai_challenge THEN "Akamai"
    ELSE IF detection.has_recaptcha THEN "reCAPTCHA"
    ELSE IF detection.has_hcaptcha THEN "hCaptcha"
    ELSE IF detection.has_cloudflare_turnstile THEN "Cloudflare Turnstile"
    ELSE "None"

\* Lines 246-262: the result of the try body; error_message keeps its
\* default None (line 40).
BuiltResult(detection, http_status) ==
    [success |-> Success(detection, http_status),
     http_status |-> http_status,
     detected_by_bot_protection |-> ChallengeType(detection) # "None",
     captcha_present |-> CaptchaPresent(detection),
     challenge_type |-> ChallengeType(detection),
     error_message |-> "None"]

\* Lines 268-284: the result of the except clause; error_message is str(e).
FailedResult ==
    [success |-> FALSE,
     http_status |-> None,
     detected_by_bot_protection |-> FALSE,
     captcha_present |-> FALSE,
     challenge_type |-> "None",
     error_message |-> "str(e)"]

\* Lines 182-184 and what exists before the driver is started: the locals
\* browser, context and page are None, no browser object is open.
BenchStart ==
    [browser |-> FALSE, context |-> FALSE, page |-> FALSE,
     drv |-> "none", brw |-> "none", ctx |-> "none", pg |-> "none",
     http_status |-> None, detection |-> NoIndicators,
     raised_at |-> "", result |-> <<>>]

\* The awaited steps of the try body in order, lines 187-262, with the body
\* of launch_browser_desktop (anti_bot_core.py lines 417-432) in place of
\* its call.
StepAfter(step, use_anti_bot) ==
    CASE step = "start" -> "launch"
      [] step = "launch" -> "new_context"
      [] step = "new_context" -> "new_page"
      [] step = "new_page" -> IF use_anti_bot THEN "init_script" ELSE "goto"
      [] step = "init_script" -> "setup_blocking"
      [] step = "setup_blocking" -> "goto"
      [] step = "goto" -> "content"
      [] step = "content" -> "detect"
      [] step = "detect" -> "probes"
      [] step = "probes" -> "user_agent"
      [] step = "user_agent" -> "build"
      [] step = "build" -> "close_page"
      [] step = "except" -> "close_page"
      [] step = "close_page" -> "close_context"
      [] step = "close_context" -> "close_browser"
      [] step = "close_browser" -> "return"
      [] step = "return" -> "done"

\* The steps that await Playwright and are not wrapped in a try of their
\* own: each may raise.
MayRaise ==
    {"start", "launch", "new_context", "new_page", "init_script",
     "setup_blocking", "goto", "content", "user_agent"}

\* The steps inside the try of launch_browser_desktop, lines 418-432.
InLaunchTry == {"launch", "new_context", "new_page", "init_script"}

Closed(state) == IF state = "open" THEN "closed" ELSE state

\* One step of test_website: from step to the next, with the new locals.
BenchGoes(step, b) ==
    /\ pc = step
    /\ bench' = b
    /\ pc' = StepAfter(step, call.use_anti_bot)
    /\ UNCHANGED outside

\* Line 192, and line 417 of launch_browser_desktop:
\* p = await async_playwright().start().
BenchStartDriver ==
    /\ InBench
    /\ BenchGoes("start", [bench EXCEPT !.drv = "started"])

\* Line 193 sets the local browser; line 419 of launch_browser_desktop sets
\* a local of its own, handed over at its return.
BenchLaunch ==
    /\ InBench
    /\ BenchGoes("launch", [bench EXCEPT !.brw = "open",
                                         !.browser = ~call.use_anti_bot])

\* Line 194, and lines 420-423 of launch_browser_desktop.
BenchNewContext ==
    /\ InBench
    /\ BenchGoes("new_context", [bench EXCEPT !.ctx = "open",
                                              !.context = ~call.use_anti_bot])

\* Line 195, and line 425 of launch_browser_desktop.
BenchNewPage ==
    /\ InBench
    /\ BenchGoes("new_page", [bench EXCEPT !.pg = "open",
                                           !.page = ~call.use_anti_bot])

\* Lines 428-432 of launch_browser_desktop, and line 188: the init script
\* is added, the triple is returned and assigned to browser, context, page.
BenchInitScript ==
    /\ InBench
    /\ BenchGoes("init_script", [bench EXCEPT !.browser = TRUE,
                                              !.context = TRUE,
                                              !.page = TRUE])

\* Line 189: await setup_resource_blocking(context).
BenchSetupBlocking ==
    /\ InBench
    /\ BenchGoes("setup_blocking", bench)

\* Lines 197-200: the navigation returns a response or None.
BenchGoto ==
    /\ InBench
    /\ \E status \in HttpStatuses :
           BenchGoes("goto", [bench EXCEPT !.http_status = status])

\* Line 201: page_text = await page.content().
BenchContent ==
    /\ InBench
    /\ BenchGoes("content", bench)

\* Line 203: detection = await self.detect_challenges(page).
BenchDetect ==
    /\ InBench
    /\ \E d \in Detections :
           BenchGoes("detect", [bench EXCEPT !.detection = d])

\* Lines 204-205: check_js_execution and count_loaded_elements catch what
\* the page raises (lines 153-166).
BenchProbes ==
    /\ InBench
    /\ BenchGoes("probes", bench)

\* Line 236: user_agent = await page.evaluate("navigator.userAgent").
BenchUserAgent ==
    /\ InBench
    /\ BenchGoes("user_agent", bench)

\* Lines 210-234 and 238-264: the result of the try body is built.
BenchBuild ==
    /\ InBench
    /\ BenchGoes("build",
                 [bench EXCEPT
                     !.result = <<BuiltResult(bench.detection,
                                              bench.http_status)>>])

\* Line 266: except Exception takes what a step of the try body raised.
OnRaisePropagates == "close_page"

OnRaise == "except"

\* A step raises.  Inside the try of launch_browser_desktop the except
\* clause (lines 433-435) first awaits p.stop(), which ends the driver and
\* with it the browser it launched and that browser's contexts and pages,
\* and raises again; test_website's locals are still None then.
BenchRaises ==
    /\ InBench /\ pc \in MayRaise
    /\ \/ call.use_anti_bot \/ pc \notin {"init_script", "setup_blocking"}
    /\ bench' = IF call.use_anti_bot /\ pc \in InLaunchTry
                THEN [bench EXCEPT !.raised_at = pc,
                                   !.drv = "stopped",
                                   !.brw = Closed(bench.brw),
                                   !.ctx = Closed(bench.ctx),
                                   !.pg = Closed(bench.pg)]
                ELSE [bench EXCEPT !.raised_at = pc]
    /\ pc' = OnRaise
    /\ UNCHANGED outside

\* Lines 266-285: the result of the except clause is built.
BenchExcept ==
    /\ InBench
    /\ BenchGoes("except", [bench EXCEPT !.result = <<FailedResult>>])

\* Lines 288-289: if page: await page.close().
BenchClosePage ==
    /\ InBench
    /\ BenchGoes("close_page",
                 IF bench.page THEN [bench EXCEPT !.pg = Closed(bench.pg)]
                 ELSE bench)

\* Lines 290-291: if context: await context.close(); a closed context has
\* no open page.
BenchCloseContext ==
    /\ InBench
    /\ BenchGoes("close_context",
                 IF bench.context
                 THEN [bench EXCEPT !.ctx = Closed(bench.ctx),
                                    !.pg = Closed(bench.pg)]
                 ELSE bench)

\* Lines 292-293: if browser: await browser.close(); a closed browser has
\* no open context or page.
BenchCloseBrowser ==
    /\ InBench
    /\ BenchGoes("close_browser",
                 IF bench.browser
                 THEN [bench EXCEPT !.brw = Closed(bench.brw),
                                    !.ctx = Closed(bench.ctx),
                                    !.pg = Closed(bench.pg)]
                 ELSE bench)

\* Line 295: return result.
BenchReturn ==
    /\ InBench
    /\ BenchGoes("return", bench)

NextBench ==
    \/ BenchStartDriver
    \/ BenchLaunch
    \/ BenchNewContext
    \/ BenchNewPage
    \/ BenchInitScript
    \/ BenchSetupBlocking
    \/ BenchGoto
    \/ BenchContent
    \/ BenchDetect
    \/ BenchProbes
    \/ BenchUserAgent
    \/ BenchBuild
    \/ BenchRaises
    \/ BenchExcept
    \/ BenchClosePage
    \/ BenchCloseContext
    \/ BenchCloseBrowser
    \/ BenchReturn

\* -------------------------------------------- clamp_coordinates, as called
\* What the actions of the pure functions leave alone: the page, the loops
\* and the sweep.
untouched == <<fixed, apart, sweep, counters, rc, frame, outcome, nStarved, url,
               cur, mv, ev, mouse>>

\* clamp_coordinates(lat, lon, bounds) is called and returns.
ClampApply ==
    /\ call.fn = "clamp_coordinates" /\ pc = "call"
    /\ calls' = Append(calls, [lat |-> call.lat, lon |-> call.lon])
    /\ result' = [kind |-> "returned",
                  value |-> clamp_coordinates(call.lat, call.lon, call.bounds)]
    /\ pc' = "returned"
    /\ UNCHANGED untouched

\* The caller clamps the point it got back, to the same bounds.
ClampAgain ==
    /\ call.fn = "clamp_coordinates" /\ pc = "returned"
    /\ Len(calls) <= MaxReclamp
    /\ calls' = Append(calls, [lat |-> result.value[1], lon |-> result.value[2]])
    /\ result' = [kind |-> "returned",
                  value |-> clamp_coordinates(result.value[1], result.value[2],
                                              call.bounds)]
    /\ UNCHANGED <<untouched, pc>>

\* ------------------------------------------ the projection, as called
\* ll_to_pixel(lat, lon, z) is called and returns.
ProjectApply ==
    /\ call.fn = "ll_to_pixel" /\ pc = "call"
    /\ calls' = Append(calls, [fn |-> "ll_to_pixel", args |-> <<call.lat, call.lon>>])
    /\ result' = [kind |-> "returned",
                  value |-> ll_to_pixel(call.lat, call.lon, call.zoom2)]
    /\ pc' = "returned"
    /\ UNCHANGED untouched

\* The caller hands the pixel it got back to pixel_to_ll(x, y, z), at the
\* same zoom.
ProjectBack ==
    /\ call.fn = "ll_to_pixel" /\ pc = "returned"
    /\ calls' = Append(calls, [fn |-> "pixel_to_ll", args |-> result.value])
    /\ result' = [kind |-> "returned",
                  value |-> pixel_to_ll(result.value[1], result.value[2],
                                        call.zoom2)]
    /\ pc' = "inverted"
    /\ UNCHANGED untouched

\* ------------------------------------------------------------ entry points
\* Arguments callers pass (lengths in half pixels, zoom in whole levels).
PanTargets == {<<0, 0>>, <<8, 6>>}

Tolerances == {DefaultTolerancePx, 20}

MaxDrags == {10, DefaultMaxDragPx}

ZoomTargets == {9, 12, 15}

IdealStartZooms == {20, 21, 23, 24, 30}

\* The ideal viewport must land on the grid after every drag: the drag
\* vector is a whole number of grid steps (this then holds along the whole
\* straight path to the target).
OnGrid(u, f) ==
    LET s == get_page_state(u)
        d == PanVector(s, f.lat, f.lon)
        m == DragVector(d[1], d[2], s[3], f.max_drag_px)
    IN  /\ Representable(d[1], d[2], s[3], f.max_drag_px)
        /\ m[1] % Scale(s[3]) = 0
        /\ m[2] % Scale(s[3]) = 0

InitLoopLocals ==
    /\ i = 0
    /\ cur = None
    /\ mv = <<0, 0>>
    /\ nReads = 0
    /\ nGestures = 0
    /\ nUnavailable = 0
    /\ ev = [kind |-> "none", arg |-> 0, call |-> 0]
    /\ outcome = "none"
    /\ result = [kind |-> "running", value |-> "None"]
    /\ nStarved = 0
    /\ coords = <<>>
    /\ pt = 0
    /\ cbs = <<>>
    /\ mouse = [at |-> "elsewhere", down |-> FALSE]

NoTasks == tasks = <<>> /\ pages = <<>>

NoPool == page_q = <<>> /\ workers = <<>>

NoRouting == block_types = <<>> /\ requests = <<>>

NoExtras == scrolled = 0 /\ interceptor = <<>> /\ bench = <<>>

InitLocals == InitLoopLocals /\ NoTasks /\ NoPool /\ NoRouting /\ NoExtras

\* The gesture controller on its single page is not called.
InitIdle ==
    /\ calls = <<>>
    /\ frame = NoFrame
    /\ rc = "none"
    /\ pc = "idle"
    /\ ideal = FALSE
    /\ url = <<>>
    /\ start = url
    /\ InitLoopLocals

\* drag_to_latlon(page, lat, lon, tolerance_px, max_iterations, max_drag_px)
\* is called on a page that is ideal, or on one that shows anything.
InitPan ==
    /\ \E t \in PanTargets, tol \in Tolerances, n \in 1 .. MaxIterArg,
          m \in MaxDrags :
         frame = DragFrame(t[1], t[2], tol, n, m, DefaultStepCount)
    /\ call = frame
    /\ calls = <<frame>>
    /\ rc = "none"
    /\ pc = "loop"
    /\ ideal \in BOOLEAN
    /\ url \in IF ideal THEN {u \in AvailableUrls : OnGrid(u, frame)}
               ELSE {<<>>}
    /\ start = url
    /\ InitLocals

\* Arguments drag_to_latlon accepts although they make no sense: a target
\* at a pole, and a tolerance, ceiling, clamp or step count that is zero or
\* negative; one of them per call, and a call with none for comparison.
RawCalls ==
    {DragFrame(0, 0, DefaultTolerancePx, 2, DefaultMaxDragPx, DefaultStepCount),
     DragFrame(NorthPole, 0, DefaultTolerancePx, 2, DefaultMaxDragPx,
               DefaultStepCount),
     DragFrame(SouthPole, 0, DefaultTolerancePx, 2, DefaultMaxDragPx,
               DefaultStepCount),
     DragFrame(0, 0, 0, 2, DefaultMaxDragPx, DefaultStepCount),
     DragFrame(0, 0, -DefaultTolerancePx, 2, DefaultMaxDragPx,
               DefaultStepCount),
     DragFrame(0, 0, DefaultTolerancePx, 0, DefaultMaxDragPx, DefaultStepCount),
     DragFrame(0, 0, DefaultTolerancePx, -1, DefaultMaxDragPx,
               DefaultStepCount),
     DragFrame(0, 0, DefaultTolerancePx, 2, 0, DefaultStepCount),
     DragFrame(0, 0, DefaultTolerancePx, 2, -10, DefaultStepCount),
     DragFrame(0, 0, DefaultTolerancePx, 2, DefaultMaxDragPx, 0),
     DragFrame(0, 0, DefaultTolerancePx, 2, DefaultMaxDragPx, -1)}

\* drag_to_latlon called with any of them, on a page that shows anything.
InitPanRaw ==
    /\ frame \in RawCalls
    /\ call = frame
    /\ calls = <<frame>>
    /\ rc = "none"
    /\ pc = "loop"
    /\ ideal = FALSE
    /\ url = <<>>
    /\ start = url
    /\ InitLocals

\* wheel_to_zoom(page, target_zoom, max_attempts=...) likewise.
InitZoom ==
    /\ \E t \in ZoomTargets, n \in 1 .. MaxAttemptsArg :
         frame = WheelFrame(t, n)
    /\ call = frame
    /\ calls = <<frame>>
    /\ rc = "none"
    /\ pc = "loop"
    /\ ideal \in BOOLEAN
    /\ url \in IF ideal THEN {MsUrl(0, 0, z) : z \in IdealStartZooms}
               ELSE {<<>>}
    /\ start = url
    /\ InitLocals

\* human_like_recenter(page, lat, lon, zoom, randomize) on a page that shows
\* anything.
InitRecenter ==
    /\ \E zoom \in ZoomTargets, randomize \in BOOLEAN :
         call = [fn |-> "human_like_recenter", lat |-> 0, lon |-> 0,
                 zoom |-> zoom, randomize |-> randomize]
    /\ calls = <<>>
    /\ frame = NoFrame
    /\ rc = "start"
    /\ pc = "call"
    /\ ideal = FALSE
    /\ url = <<>>
    /\ start = url
    /\ InitLocals

\* Arguments callers pass to grid_sweep (step_px in half pixels).
SweepCentres == {<<4000, 5000>>, <<6000, 4000>>}

SweepZooms == {8, 9}

StepPxs == {2, DefaultStepPx}

\* grid_sweep(page, center_lat, center_lon, zoom, rings, step_px, dwell_s,
\* action_callback) on a page that shows anything, with or without a
\* callback.
InitSweep ==
    /\ \E c \in SweepCentres, zoom \in SweepZooms, rings \in 1 .. MaxRings,
          step_px \in StepPxs, cb \in {"None", "given"} :
         call = [fn |-> "grid_sweep", center_lat |-> c[1],
                 center_lon |-> c[2], zoom |-> zoom, rings |-> rings,
                 step_px |-> step_px, action_callback |-> cb]
    /\ calls = <<>>
    /\ frame = NoFrame
    /\ rc = "sweep_start"
    /\ pc = "call"
    /\ ideal = FALSE
    /\ url = <<>>
    /\ start = url
    /\ InitLocals

\* Points and bounds callers pass to clamp_coordinates, in whole degrees:
\* inside, on and beyond the bounds; bounds that are the whole globe, a
\* region, a single point, and a region with its minima above its maxima.
ClampLats == {-95, -90, -30, 0, 10, 45, 60, 90, 95}

ClampLons == {-190, -180, -170, 0, 20, 170, 180, 190}

ClampBounds ==
    {<<-90, 90, -180, 180>>, <<0, 45, 0, 170>>, <<10, 10, 20, 20>>,
     <<45, 0, 170, 0>>, <<-30, 60, 20, -170>>}

InitClamp ==
    /\ \E lat \in ClampLats, lon \in ClampLons, b \in ClampBounds :
         call = [fn |-> "clamp_coordinates", lat |-> lat, lon |-> lon,
                 bounds |-> b]
    /\ calls = <<>>
    /\ frame = NoFrame
    /\ rc = "none"
    /\ pc = "call"
    /\ ideal = FALSE
    /\ url = <<>>
    /\ start = url
    /\ InitLocals

NextClamp == ClampApply \/ ClampAgain

SpecClamp == InitClamp /\ [][NextClamp]_vars

\* Points handed to ll_to_pixel: grid rows from just below latitude 85 to
\* just above -85 (the grid is 2^17 steps high and wide, the equator is row
\* 65536), grid columns from longitude -180 (0) to 180 (131072), all whole
\* numbers of units at every zoom from 0 to 20; zooms 0, 0.5, 7.5, 8, 8.5,
\* 13, 19.5 and 20.
ProjLats == {256, 8192, 40960, 65536, 100096, 130816}

ProjLons == {0, 256, 32768, 65536, 98304, 131072}

ProjZooms == {0, 1, 15, 16, 17, 26, 39, 40}

InitProject ==
    /\ \E lat \in ProjLats, lon \in ProjLons, z2 \in ProjZooms :
         call = [fn |-> "ll_to_pixel", lat |-> lat, lon |-> lon, zoom2 |-> z2]
    /\ calls = <<>>
    /\ frame = NoFrame
    /\ rc = "none"
    /\ pc = "call"
    /\ ideal = FALSE
    /\ url = <<>>
    /\ start = url
    /\ InitLocals

NextProject == ProjectApply \/ ProjectBack

SpecProject == InitProject /\ [][NextProject]_vars

\* Two loops run with asyncio.gather, each on a page of its own that
\* follows gestures exactly: a pan that converges at the first read, after
\* one drag, or not within its ceiling, a zoom in or out, and either on a
\* page that cannot be read.
GatherFrames ==
    {DragFrame(0, 0, DefaultTolerancePx, MaxIterArg, 10, DefaultStepCount),
     DragFrame(8, 6, DefaultTolerancePx, MaxIterArg, DefaultMaxDragPx,
               DefaultStepCount),
     WheelFrame(12, MaxIterArg)}

GatherUrls ==
    {<<>>, MsUrl(0, 0, 24), MsUrl(0, 10, 24), MsUrl(8, 6, 20), MsUrl(0, 0, 30)}

GatherJobs ==
    {j \in GatherFrames \X GatherUrls :
       (j[1].fn = "drag_to_latlon" /\ j[2] # <<>>) => OnGrid(j[2], j[1])}

InitGather ==
    /\ \E j1 \in GatherJobs, j2 \in GatherJobs :
         /\ tasks = <<Task(1, j1[1]), Task(2, j2[1])>>
         /\ pages = <<Page(j1[2]), Page(j2[2])>>
    /\ call = [fn |-> "gather", tasks |-> tasks, pages |-> pages]
    /\ InitIdle
    /\ NoPool
    /\ NoRouting
    /\ NoExtras

SpecGather == InitGather /\ [][NextGather]_vars

\* create_worker_pool(ctx, worker_count) has returned and up to MaxItems
\* process_item tasks are gathered on its queue.
InitPool ==
    /\ \E w \in -1 .. MaxWorkerCount, n \in 1 .. MaxItems :
         /\ call = [fn |-> "create_worker_pool", worker_count |-> w,
                    items |-> n]
         /\ page_q = create_worker_pool(w)
         /\ workers = [t \in 1 .. n |->
                         [pc |-> "get", page |-> 0, raised |-> FALSE]]
    /\ InitIdle
    /\ NoTasks
    /\ NoRouting
    /\ NoExtras

SpecPool == InitPool /\ [][NextPool]_vars

\* The event loop runs every task that is ready: a get() that can be served
\* is served, and every awaited page operation and pause comes back.
SpecPoolLive ==
    /\ InitPool /\ [][NextPool]_vars
    /\ WF_vars(ItemGet) /\ WF_vars(ItemGoto) /\ WF_vars(ItemThink)
    /\ WF_vars(ItemTitle) /\ WF_vars(ItemPut)

\* Resource types the browser reports for a request, and the lists callers
\* pass as block_types ("None": the argument is omitted).
ResourceTypes ==
    {"document", "stylesheet", "image", "media", "font", "script", "xhr"}

BlockTypeArgs == {"None", <<>>, <<"image">>, <<"script", "stylesheet">>}

InitRoute ==
    /\ \E b \in BlockTypeArgs :
         call = [fn |-> "setup_resource_blocking", block_types |-> b,
                 resource_types |-> ResourceTypes]
    /\ block_types = [installed |-> FALSE, list |-> <<>>]
    /\ requests = <<>>
    /\ InitIdle
    /\ NoTasks
    /\ NoPool
    /\ NoExtras

SpecRoute == InitRoute /\ [][NextRoute]_vars

\* Distances (whole pixels) callers pass to human_scroll: the default 300, a
\* distance below the number of pauses, and some that the number of pauses
\* divides or does not divide.
ScrollDistances == {1, 3, 7, 100, 299, 300, 1000}

InitScroll ==
    /\ \E d \in {"up", "down"}, dist \in ScrollDistances,
          n \in 1 .. MaxPauses :
         call = [fn |-> "human_scroll", direction |-> d,
                 distance_px |-> dist, pauses |-> n]
    /\ calls = <<>>
    /\ frame = NoFrame
    /\ rc = "none"
    /\ pc = "loop"
    /\ ideal = FALSE
    /\ url = <<>>
    /\ start = url
    /\ InitLocals

SpecScroll == InitScroll /\ [][NextScroll]_vars

\* Keys of the handlers dict, and response urls, over a two-letter alphabet:
\* the empty pattern, patterns that occur at the start, inside or at the end
\* of a url, and patterns that do not occur.
HandlerPatterns ==
    {<<>>, <<"a">>, <<"b">>, <<"a", "b">>, <<"b", "a">>, <<"b", "b">>}

ResponseUrls ==
    {<<>>, <<"a">>, <<"a", "b">>, <<"b", "a", "b">>, <<"a", "a", "b">>}

\* Line 532-533: no handlers given is the empty dict.  A dict has each key
\* once and iterates in insertion order.
HandlerDicts ==
    {h \in UNION {[1 .. n -> HandlerPatterns] : n \in 0 .. MaxHandlers} :
        \A j, k \in DOMAIN h : j # k => h[j] # h[k]}

InitIntercept ==
    /\ \E h \in HandlerDicts, u \in ResponseUrls :
         call = [fn |-> "_handle_response", handlers |-> h, url |-> u]
    /\ calls = <<>>
    /\ frame = NoFrame
    /\ rc = "none"
    /\ pc = "loop"
    /\ ideal = FALSE
    /\ url = <<>>
    /\ start = url
    /\ InitLocals

SpecIntercept == InitIntercept /\ [][NextIntercept]_vars

\* test_website is called with or without the anti-bot launch (line 171).
InitBench ==
    /\ \E b \in BOOLEAN : call = [fn |-> "test_website", use_anti_bot |-> b]
    /\ calls = <<>>
    /\ frame = NoFrame
    /\ rc = "none"
    /\ pc = "start"
    /\ ideal = FALSE
    /\ url = <<>>
    /\ start = url
    /\ InitLoopLocals /\ NoTasks /\ NoPool /\ NoRouting
    /\ scrolled = 0 /\ interceptor = <<>>
    /\ bench = BenchStart

SpecBench == InitBench /\ [][NextBench]_vars

NextRecenter == RecenterStart \/ DragNext \/ WheelNext

SpecPan == InitPan /\ [][DragNext]_vars

SpecPanRaw == InitPanRaw /\ [][DragNext]_vars

SpecZoom == InitZoom /\ [][WheelNext]_vars

SpecRecenter == InitRecenter /\ [][NextRecenter]_vars

NextSweep == SweepStart \/ DragNext \/ SweepCallback \/ SweepDwell

SpecSweep == InitSweep /\ [][NextSweep]_vars

\* ================================================================== claims
Done == pc = "done"

\* The url is one _get_page_state can read.
Readable(u) == Len(u) = 3 /\ \A k \in 1 .. 3 : u[k].float

\* Squared pixel distance from the state s to the target of the running pan.
TargetDist2(s) == PanDist2(s, frame.lat, frame.lon)

StartDist2 == TargetDist2(get_page_state(start))

\* The running iteration has read a state and gone on to its gesture.
InGesture == pc \in {"move_anchor", "mouse_down", "drag_move", "mouse_up",
                     "settle", "wheel", "delay"}

\* C1 as stated: on the ideal viewport, whenever max_drag_px * max_iterations
\* >= the initial distance, drag_to_latlon returns from the tolerance check.
C1_ConvergedWhenBudgetCoversDistance ==
    (/\ ideal /\ InDrag /\ Done
     /\ ~LessThanDist(frame.max_drag_px * frame.max_iterations, StartDist2))
    => outcome = "converged"

\* C1 amended: on the ideal viewport, whenever max_drag_px * (max_iterations
\* - 1) + tolerance_px >= the initial distance (one read is left after the
\* last drag that is needed), drag_to_latlon never blocks and returns from
\* the tolerance check, on a read that shows a distance <= tolerance_px.
C1_ConvergedWhenBudgetLeavesARead ==
    (/\ ideal /\ InDrag
     /\ DistLeq(StartDist2, frame.max_drag_px * (frame.max_iterations - 1)
                            + frame.tolerance_px))
    => /\ ~Done => ENABLED DragNext
       /\ Done => /\ outcome = "converged"
                  /\ ev.kind = "read"
                  /\ cur = get_page_state(url)
                  /\ DistLeq(TargetDist2(cur), frame.tolerance_px)

\* Two clamped drags and a third read that finds the target.
C1_Witness ==
    /\ ideal /\ InDrag /\ Done /\ outcome = "converged"
    /\ nGestures = 2 /\ nReads = 3
    /\ DistLeq(StartDist2, frame.max_drag_px * (frame.max_iterations - 1)
                           + frame.tolerance_px)

\* A measure that every step of the pan loop lowers and that is never below
\* 0: what is left of the iteration budget, then of the running iteration.
PanRank ==
    IF Done THEN 0
    ELSE 7 * (frame.max_iterations - i) + 1
         + CASE pc = "move_anchor" -> 5
             [] pc = "mouse_down"  -> 4
             [] pc = "drag_move"   -> 3
             [] pc = "mouse_up"    -> 2
             [] pc = "settle"      -> 1
             [] pc = "backoff"     -> 1
             [] OTHER              -> 0

\* C2: whatever the page shows, drag_to_latlon makes at most max_iterations
\* state reads and at most max_iterations drags, never blocks before it is
\* done, and terminates: every step lowers a measure bounded below.
C2_PanTerminatesWithinBudget ==
    /\ [](InDrag => /\ nReads <= frame.max_iterations
                    /\ nGestures <= frame.max_iterations
                    /\ PanRank >= 0
                    /\ ~Done => ENABLED DragNext)
    /\ [][PanRank' < PanRank]_vars

\* Every iteration of the largest budget dragged, on a page that never came
\* within tolerance.
C2_Witness ==
    /\ ~ideal /\ InDrag /\ Done /\ outcome = "exhausted"
    /\ frame.max_iterations > 2
    /\ nReads = frame.max_iterations /\ nGestures = frame.max_iterations

\* C3: a drag is only made in an iteration whose read showed a distance
\* beyond tolerance_px; a read within tolerance ends the loop there and then
\* (it stays the last operation: no gesture, read or pause follows), and a
\* first read within tolerance means no gesture at all.
C3_NoMotionAfterReadWithinTolerance ==
    InDrag =>
      /\ InGesture => /\ cur # None
                      /\ ~DistLeq(TargetDist2(cur), frame.tolerance_px)
      /\ (/\ ev.kind = "read" /\ Readable(url)
          /\ DistLeq(TargetDist2(get_page_state(url)), frame.tolerance_px))
         => Done /\ outcome = "converged"
      /\ outcome = "converged" => Done /\ ev.kind = "read"
      /\ Done => ~ENABLED DragNext
      /\ (outcome = "converged" /\ nReads = 1) => nGestures = 0

\* The first read is off target by exactly tolerance_px: nothing is dragged.
C3_Witness ==
    /\ InDrag /\ Done /\ outcome = "converged" /\ nReads = 1 /\ nGestures = 0
    /\ TargetDist2(cur) = frame.tolerance_px * frame.tolerance_px

\* C4: the drag vector <<mx, my>> of an iteration has length
\* min(max_drag_px, dist): no more than max_drag_px, no more than the
\* distance that is left, and it points from the current centre to the
\* target; the gesture ends at the anchor displaced by it.
C4_DragIsClampedTowardTarget ==
    (InDrag /\ InGesture) =>
      LET d     == PanVector(cur, frame.lat, frame.lon)
          dist2 == Hypot2(d[1], d[2], cur[3])
          m2    == Hypot2(mv[1], mv[2], cur[3])
          cap   == frame.max_drag_px
      IN  /\ DistLeq(m2, cap)
          /\ m2 <= dist2
          /\ m2 = IF cap * cap < dist2 THEN cap * cap ELSE dist2
          /\ mv[1] * d[2] = mv[2] * d[1]
          /\ mv[1] * d[1] + mv[2] * d[2] > 0
          /\ pc \in {"mouse_up", "settle"} => mouse.at = "anchor_minus_mv"

\* A clamped drag along a diagonal.
C4_Witness ==
    /\ InDrag /\ pc = "mouse_up"
    /\ LessThanDist(frame.max_drag_px, TargetDist2(cur))
    /\ mv[1] # 0 /\ mv[2] # 0

\* C5: a read of an unreadable url in drag_to_latlon raises nothing and ends
\* nothing; the next operation is the backoff pause, with no gesture.  It
\* uses up an iteration like any other read: drags plus unavailable reads
\* never exceed the reads, and the reads never exceed max_iterations.
C5_UnavailableReadIsARetry ==
    /\ [](InDrag => /\ nGestures + nUnavailable <= nReads
                    /\ nReads <= frame.max_iterations
                    /\ nReads = i
                    /\ (ev.kind = "read" /\ ~Readable(url))
                       => /\ cur = None /\ nUnavailable >= 1
                          /\ ~Done /\ result.kind = "running")
    /\ [][(InDrag /\ ev.kind = "read" /\ ~Readable(url))
          => /\ ev'.kind = "sleep"
             /\ nGestures' = nGestures
             /\ nReads' = nReads
             /\ ~Done']_vars

\* One read of three failed, the two others dragged.
C5_Witness ==
    /\ ~ideal /\ InDrag /\ Done /\ frame.max_iterations = 3
    /\ nUnavailable = 1 /\ nGestures = 2

\* C6: drag_to_latlon returns None and raises nothing both when it converged
\* and when max_iterations ran out: the caller gets the same value.
C6_ExhaustedReturnsLikeConverged ==
    (InDrag /\ Done) =>
      /\ outcome \in {"converged", "exhausted"}
      /\ result = [kind |-> "returned", value |-> "None"]

\* The budget ran out on a page still beyond tolerance.
C6_Witness ==
    /\ InDrag /\ Done /\ outcome = "exhausted" /\ nGestures >= 1
    /\ Readable(url)
    /\ ~DistLeq(TargetDist2(get_page_state(url)), frame.tolerance_px)

\* Zoom level (in half levels) of the page when the entry point was called.
StartZoom2 == get_page_state(start)[3]

\* C7: on the ideal viewport (always readable, one level per scroll),
\* wheel_to_zoom from zoom z0 to target t issues exactly |t - round(z0)|
\* scrolls whenever max_attempts >= |t - round(z0)|.
C7_ScrollCountIsZoomDifference ==
    (/\ ideal /\ InWheel /\ Done
     /\ frame.max_attempts >= Abs(frame.target_zoom - round(StartZoom2)))
    => nGestures = Abs(frame.target_zoom - round(StartZoom2))

\* A measure that every step of the zoom loop lowers and that is never below
\* 0: what is left of the attempt budget, then of the running attempt.
WheelRank ==
    IF Done THEN 0
    ELSE 4 * (frame.max_attempts - i) + 1
         + CASE pc = "move_anchor" -> 3
             [] pc = "wheel"       -> 2
             [] pc = "delay"       -> 1
             [] pc = "backoff"     -> 1
             [] OTHER              -> 0

\* C8: a wheel event is only issued in an attempt whose rounded zoom differs
\* from the target, its delta is -300 when the target is above the rounded
\* zoom and +300 when it is below, whatever the difference; and every such
\* attempt issues exactly one (scrolls = attempts that read a zoom off target).
C8_OneFixedWheelStepPerAttempt ==
    InWheel =>
      /\ ev.kind = "mouse_wheel"
         => /\ cur # None
            /\ round(cur[3]) # frame.target_zoom
            /\ ev.arg = IF frame.target_zoom > round(cur[3]) THEN -300 ELSE 300
      /\ nGestures = i - nUnavailable
                     - (IF \/ pc \in {"move_anchor", "wheel"}
                           \/ Done /\ outcome = "converged"
                        THEN 1 ELSE 0)

\* A scroll out from three or more levels above the target.
C8_Witness ==
    /\ InWheel /\ ev.kind = "mouse_wheel" /\ ev.arg = 300
    /\ round(cur[3]) - frame.target_zoom >= 3

\* C9: whatever the page shows, wheel_to_zoom makes at most max_attempts
\* reads and scrolls and terminates; a read whose rounded zoom is the target
\* ends it there and then with no scroll after it; an unreadable url costs
\* an attempt and is followed by the backoff pause, not by a scroll.
C9_ZoomTerminatesWithinBudget ==
    /\ [](InWheel =>
            /\ nReads <= frame.max_attempts
            /\ nGestures <= frame.max_attempts
            /\ nGestures + nUnavailable <= nReads
            /\ nReads = i
            /\ WheelRank >= 0
            /\ ~Done => ENABLED WheelNext
            /\ Done => ~ENABLED WheelNext
            /\ InGesture => cur # None /\ round(cur[3]) # frame.target_zoom
            /\ (/\ ev.kind = "read" /\ Readable(url)
                /\ round(get_page_state(url)[3]) = frame.target_zoom)
               => Done /\ outcome = "converged"
            /\ outcome = "converged" => Done /\ ev.kind = "read"
            /\ (ev.kind = "read" /\ ~Readable(url))
               => cur = None /\ nUnavailable >= 1 /\ ~Done)
    /\ [][WheelRank' < WheelRank]_vars
    /\ [][(InWheel /\ ev.kind = "read" /\ ~Readable(url))
          => ev'.kind = "sleep" /\ nGestures' = nGestures /\ ~Done']_vars

\* The largest budget used up by unreadable urls and scrolls.
C9_Witness ==
    /\ ~ideal /\ InWheel /\ Done /\ outcome = "exhausted"
    /\ frame.max_attempts > 5
    /\ nUnavailable >= 1 /\ nGestures >= 1
    /\ nReads = frame.max_attempts

\* The four loop calls human_like_recenter makes when its first picks r.
RecenterCalls(r) ==
    <<WheelFrame(r, DefaultMaxAttempts), DefaultDrag(call.lat, call.lon),
      WheelFrame(call.zoom, DefaultMaxAttempts),
      DefaultDrag(call.lat, call.lon)>>

\* The loop has ended the way the code lets it end: on a read that meets
\* its test, or with its budget used up (primed: the step that ends it).
LoopEndsHere ==
    \/ /\ outcome' = "converged" /\ ev'.kind = "read" /\ Readable(url')
       /\ IF InDrag
          THEN DistLeq(TargetDist2(get_page_state(url')), frame.tolerance_px)
          ELSE round(get_page_state(url')[3]) = frame.target_zoom
    \/ /\ outcome' = "exhausted" /\ pc = "loop" /\ ev' = ev
       /\ i = IF InDrag THEN frame.max_iterations ELSE frame.max_attempts

\* C10: human_like_recenter calls, in this order, the zoom loop to a coarse
\* level, the pan loop to (lat, lon), the zoom loop to the target zoom and
\* the pan loop to (lat, lon) again; every operation on the page is made by
\* the loop called last (scrolls by a zoom loop, presses by a pan loop), and
\* the next loop is called only by the step that ends the one before.
C10_FourPhasesInOrder ==
    /\ [](/\ Len(calls) <= 4
          /\ \A k \in 1 .. Len(calls) :
               calls[k] = RecenterCalls(calls[1].target_zoom)[k]
          /\ Len(calls) = CASE rc = "start"    -> 0
                            [] rc = "zoom_out" -> 1
                            [] rc = "pan"      -> 2
                            [] rc = "zoom_in"  -> 3
                            [] OTHER           -> 4
          /\ Done <=> rc = "done"
          /\ Len(calls) > 0 => frame = calls[Len(calls)]
          /\ ev.kind # "none"
             => /\ ev.call \in {Len(calls) - 1, Len(calls)} /\ ev.call >= 1
                /\ ev.call < Len(calls) => pc = "loop" /\ i = 0
                /\ ev.kind = "mouse_wheel"
                   => calls[ev.call].fn = "wheel_to_zoom"
                /\ ev.kind \in {"mouse_down", "mouse_up"}
                   => calls[ev.call].fn = "drag_to_latlon")
    /\ [][/\ Len(calls') \in {Len(calls), Len(calls) + 1}
          /\ (Len(calls') > Len(calls) /\ Len(calls) > 0) => LoopEndsHere
          /\ ev'.call >= ev.call]_vars

\* All four loops were called and the last one dragged.
C10_Witness ==
    /\ rc = "done" /\ Len(calls) = 4 /\ nGestures >= 1
    /\ calls[1].target_zoom # call.zoom

\* The iteration ceiling of the running loop.
Budget == IF InDrag THEN frame.max_iterations ELSE frame.max_attempts

\* A measure that every step of human_like_recenter lowers and that is never
\* below 0: the loops still to call, then what is left of the running one.
RecenterRank ==
    IF rc = "done" THEN 0
    ELSE 200 * (4 - Len(calls)) + 1
         + (IF InDrag THEN PanRank ELSE IF InWheel THEN WheelRank ELSE 0)

\* C11: human_like_recenter always runs all four phases: it never blocks,
\* every step brings its end nearer, and it ends only after the fourth loop
\* was called.  A loop of the first three phases whose budget is used up
\* (also when every read of it was unavailable) returns None to
\* human_like_recenter in the same step that calls the next loop, and no
\* loop ever raises.
C11_AllPhasesRunDespiteExhaustion ==
    /\ [](/\ result.kind \in {"running", "returned"}
          /\ rc # "done" => ENABLED NextRecenter
          /\ rc = "done" => /\ Len(calls) = 4
                            /\ result = [kind |-> "returned", value |-> "None"]
          /\ outcome = "exhausted" => result.kind = "returned"
          /\ nStarved <= Len(calls)
          /\ RecenterRank >= 0)
    /\ [][/\ RecenterRank' < RecenterRank
          /\ (/\ rc \in {"zoom_out", "pan", "zoom_in"}
              /\ pc = "loop" /\ i = Budget)
             => /\ outcome' = "exhausted"
                /\ result'.kind = "returned"
                /\ rc' = NextPhase(rc)
                /\ Len(calls') = Len(calls) + 1
                /\ pc' = "loop" /\ i' = 0
                /\ nStarved' = nStarved + (IF nUnavailable = i THEN 1 ELSE 0)]_vars

\* The first three loops each used up their budget on a page that was never
\* readable; the fourth was still called, dragged and converged.
C11_Witness ==
    /\ rc = "done" /\ Len(calls) = 4 /\ nStarved = 3
    /\ outcome = "converged" /\ nGestures >= 1

\* C12: the zoom level the first phase of human_like_recenter targets is
\* strictly smaller than the final target zoom, for every target zoom and
\* for both settings of randomize.
C12_FirstPhaseIsCoarser ==
    Len(calls) >= 1 => calls[1].target_zoom < call.zoom

\* The pixel offset of the point g = <<lat, lon>> from the centre of the
\* sweep, in units of step_px: both projected back at the sweep's zoom.
SweepOffset(g) ==
    LET c == ll_to_pixel(call.center_lat, call.center_lon, 2 * call.zoom)
        p == ll_to_pixel(g[1], g[2], 2 * call.zoom)
    IN  <<(p[1] - c[1]) \div call.step_px, (p[2] - c[2]) \div call.step_px>>

\* The ring a point lies on: its distance from the centre in grid cells.
RingOf(g) ==
    LET o == SweepOffset(g)
    IN  IF Abs(o[1]) > Abs(o[2]) THEN Abs(o[1]) ELSE Abs(o[2])

\* The indices of the points of the list cs that lie on ring r.
PointsOfRing(cs, r) == {n \in 1 .. Len(cs) : RingOf(cs[n]) = r}

InSweep == call.fn = "grid_sweep" /\ rc # "sweep_start"

GeneratedBefore(g, h) ==
    LET a == SweepOffset(g)
        b == SweepOffset(h)
    IN  \/ RingOf(g) < RingOf(h)
        \/ /\ RingOf(g) = RingOf(h)
           /\ \/ a[1] < b[1]
              \/ a[1] = b[1] /\ a[2] = -RingOf(g) /\ b[2] = RingOf(g)

\* C14: coords is in generation order (ring ascending, dx ascending from -r,
\* dy = -r before dy = +r) and grid_sweep visits it in list order, one pan
\* loop per point: every page operation is made by the pan loop of the
\* running point, and the pan loop of the next point is called only by the
\* step that ends the dwell pause of this one, after its pan loop has
\* returned and, when a callback was passed, after its callback has returned.
C14_VisitsInGenerationOrder ==
    /\ [](InSweep =>
            /\ pt \in 1 .. Len(coords)
            /\ Len(calls) = pt
            /\ frame = DefaultDrag(coords[pt][1], coords[pt][2])
            /\ frame = calls[pt]
            /\ ev.kind # "none"
               => /\ ev.call \in {pt - 1, pt}
                  /\ ev.call = pt - 1
                     => ev.kind = "dwell" /\ pc = "loop" /\ i = 0)
    /\ [][/\ coords' # coords
             => /\ SweepOffset(coords'[1]) = <<-1, -1>>
                /\ \A n \in 1 .. Len(coords') - 1 :
                     GeneratedBefore(coords'[n], coords'[n + 1])
          /\ pt' # pt
             => /\ pt' = pt + 1
                /\ calls' = Append(calls, DefaultDrag(coords'[pt'][1],
                                                      coords'[pt'][2]))
                /\ pc' = "loop" /\ i' = 0 /\ nReads' = 0 /\ nGestures' = 0
                /\ pt >= 1
                   => /\ rc = "sweep_dwell" /\ pc = "done"
                      /\ ev'.kind = "dwell" /\ ev'.arg = pt
                      /\ call.action_callback # "None"
                         => Len(cbs) = pt /\ ~cbs[pt].raised
          /\ calls' # calls => pt' # pt]_vars

\* The pan loop of the first point of ring 2 has read the page, after the
\* six points of ring 1 were visited and their callbacks made.
C14_Witness ==
    /\ InSweep /\ call.rings = 2 /\ call.action_callback # "None"
    /\ pt = 7 /\ rc = "sweep_pan" /\ nReads >= 1 /\ ev.call = 7
    /\ Len(cbs) = 6
    /\ SweepOffset(coords[6]) = <<1, 1>>
    /\ SweepOffset(coords[7]) = <<-2, -2>>
    /\ SweepOffset(coords[8]) = <<-2, 2>>

\* The ring whose loop iteration appended entry n of coords: ring r fills
\* the entries after the 2 * (r - 1) * (r + 1) of the rings before it (0 if
\* n is past the last ring).
IndexRing(n) ==
    LET rs == {r \in 1 .. call.rings :
                 2 * (r - 1) * (r + 1) < n /\ n <= 2 * r * (r + 2)}
    IN  IF rs = {} THEN 0 ELSE CHOOSE r \in rs : TRUE

\* C15: every offset <<dx, dy>> generated for ring r has |dy| = r and
\* |dx| <= r: only the top and bottom rows of a ring, never its left and
\* right edges (|dy| < r), never dy = 0, never the centre <<0, 0>>; and no
\* pan loop is ever aimed at the centre.
C15_OnlyTopAndBottomRows ==
    /\ [](InSweep =>
            /\ SweepOffset(<<frame.lat, frame.lon>>)[2] # 0
            /\ <<frame.lat, frame.lon>> # <<call.center_lat, call.center_lon>>)
    /\ [][coords' # coords
          => \A n \in 1 .. Len(coords') :
               LET o == SweepOffset(coords'[n])
               IN  /\ IndexRing(n) >= 1
                   /\ Abs(o[2]) = IndexRing(n)
                   /\ Abs(o[1]) <= IndexRing(n)
                   /\ o[2] # 0
                   /\ o # <<0, 0>>
                   /\ coords'[n] # <<call.center_lat, call.center_lon>>]_vars

\* A finished sweep of 2 rings: the point straight below the centre on ring
\* 2 was generated, and no generated point lies on the centre's row.
C15_Witness ==
    /\ InSweep /\ rc = "done" /\ call.rings = 2 /\ pt = Len(coords)
    /\ SweepOffset(coords[12]) = <<0, 2>>
    /\ \A n \in 1 .. Len(coords) : SweepOffset(coords[n])[2] \in {-2, -1, 1, 2}
    /\ \E n \in 1 .. Len(coords) : SweepOffset(coords[n]) = <<2, 2>>

\* What the callback must be passed for point k: the point, its index
\* counted from 1, and the number of generated points.
PointArgs(k) ==
    [lat |-> coords[k][1], lon |-> coords[k][2], index |-> k,
     total |-> Len(coords)]

\* C16: when a callback is passed, grid_sweep invokes it exactly once per
\* point, in order, with the point, its 1-based index and total =
\* len(coords); the invocation of point k is made after the pan loop of
\* point k has returned and before the dwell pause of point k.  Without a
\* callback nothing is invoked.
C16_CallbackOncePerPoint ==
    /\ [](InSweep =>
            /\ call.action_callback = "None" => cbs = <<>>
            /\ call.action_callback # "None"
               => /\ rc \in {"sweep_pan", "sweep_callback"} => Len(cbs) = pt - 1
                  /\ rc \in {"sweep_dwell", "done", "raised"} => Len(cbs) = pt
                  /\ rc = "done" => Len(cbs) = Len(coords)
                  /\ \A k \in 1 .. Len(cbs) : cbs[k].args = PointArgs(k)
            /\ rc = "sweep_callback"
               => /\ pc = "done" /\ result.kind = "returned"
                  /\ outcome \in {"converged", "exhausted"}
                  /\ ev.call = pt /\ ev.kind \in {"read", "sleep"})
    /\ [][/\ cbs' # cbs
             => /\ rc = "sweep_callback"
                /\ cbs' = Append(cbs, cbs'[Len(cbs')])
                /\ cbs'[Len(cbs')].args = PointArgs(pt)
                /\ ev'.kind = "callback" /\ ev'.arg = pt
          /\ (ev'.kind = "dwell" /\ ev' # ev /\ call.action_callback # "None")
             => /\ ev.kind = "callback" /\ ev.arg = ev'.arg
                /\ Len(cbs) = ev'.arg]_vars

\* A finished sweep of 2 rings with a callback: 16 invocations, the last
\* one with index 16 of 16.
C16_Witness ==
    /\ InSweep /\ rc = "done" /\ call.rings = 2
    /\ Len(cbs) = 16
    /\ cbs[1].args.index = 1 /\ cbs[16].args.index = 16
    /\ cbs[16].args.total = 16
    /\ cbs[16].args.lat = coords[16][1] /\ cbs[16].args.lon = coords[16][2]
    /\ ev.kind = "dwell"

\* C17: an exception raised by the callback at point k leaves grid_sweep
\* and reaches its caller; the callback is then the last operation of the
\* sweep: the dwell pause of point k is not made, no pan loop is called for
\* a later point and no later callback is invoked.
C17_CallbackExceptionPropagates ==
    InSweep =>
      /\ \A k \in 1 .. Len(cbs) :
           cbs[k].raised
           => /\ k = Len(cbs) /\ k = pt /\ Len(calls) = pt
              /\ rc = "raised"
              /\ result = [kind |-> "raised", value |-> "callback"]
              /\ ev.kind = "callback" /\ ev.arg = pt
              /\ ~ENABLED NextSweep
      /\ rc = "raised" => Len(cbs) = pt /\ cbs[pt].raised
      /\ result.kind = "raised" => rc = "raised"

\* The callback raised at the third of 16 points.
C17_Witness ==
    /\ InSweep /\ rc = "raised" /\ pt = 3 /\ Len(coords) = 16
    /\ Len(calls) = 3 /\ Len(cbs) = 3 /\ cbs[3].raised
    /\ ~cbs[1].raised /\ ~cbs[2].raised
    /\ result.kind = "raised"

PointerKinds == {"mouse_move", "mouse_down", "mouse_up"}

\* C18: during a sweep no wheel event is issued and no zoom loop is called:
\* every loop grid_sweep calls is a pan loop, and every pointer operation
\* is part of a drag made by the pan loop of the running point.
C18_SweepNeverScrolls ==
    /\ [](InSweep =>
            /\ ev.kind # "mouse_wheel"
            /\ ev.kind \in PointerKinds \cup
                           {"none", "read", "sleep", "callback", "dwell"}
            /\ frame.fn = "drag_to_latlon"
            /\ ev.kind \in PointerKinds
               => /\ rc = "sweep_pan" /\ ev.call = pt /\ nGestures >= 1
                  /\ pc \in {"mouse_down", "drag_move", "mouse_up", "settle"}
            /\ mouse.down => rc = "sweep_pan" /\ pc \in {"drag_move", "mouse_up"})
    /\ [][calls' # calls
          => calls'[Len(calls')].fn = "drag_to_latlon"]_vars

\* The pan loop of the third point releases the button of its second drag.
C18_Witness ==
    /\ InSweep /\ rc = "sweep_pan" /\ pt = 3
    /\ ev.kind = "mouse_up" /\ nGestures = 2

\* C19: in both loops every iteration makes exactly one state read, at its
\* start; current_state is the state of the read of the running iteration
\* (None before the first read of a loop and after an unavailable read,
\* never the state of an earlier iteration); the drag vector and the wheel
\* delta are computed from it; and the operation just before the first
\* pointer operation of a gesture is the read of the same iteration, so a
\* read lies between any two gestures.
C19_FreshReadEveryIteration ==
    /\ [](frame.fn # "none" =>
            /\ nReads = i
            /\ nGestures <= nReads
            /\ i = 0 => cur = None
            /\ i >= 1 => cur = get_page_state(url)
            /\ InGesture => cur # None
            /\ (InDrag /\ InGesture)
               => LET d == PanVector(cur, frame.lat, frame.lon)
                  IN  /\ mv = DragVector(d[1], d[2], cur[3], frame.max_drag_px)
                      /\ ~CloseEnough(Hypot2(d[1], d[2], cur[3]),
                                      frame.tolerance_px)
            /\ (InWheel /\ ev.kind = "mouse_wheel")
               => /\ round(cur[3]) # frame.target_zoom
                  /\ ev.arg = ScrollDirection(frame.target_zoom, round(cur[3])))
    /\ [][/\ (i' # i /\ calls' = calls)
             => /\ i' = i + 1 /\ nReads' = nReads + 1
                /\ ev'.kind = "read"
                /\ cur' = get_page_state(url')
          /\ (pc = "move_anchor" /\ pc' # pc)
             => /\ ev.kind = "read" /\ ev.call = Len(calls)
                /\ ev'.kind = "mouse_move"
                /\ cur' = cur /\ url' = url
          /\ nGestures' # nGestures
             => nGestures' = 0 \/ (nGestures' = nGestures + 1 /\ nGestures < nReads)]_vars

\* The fine pan of human_like_recenter ends its second drag in its third
\* iteration, after one unavailable read.
C19_Witness ==
    /\ rc = "fine_pan" /\ InDrag /\ pc = "settle"
    /\ i = 3 /\ nReads = 3 /\ nUnavailable = 1 /\ nGestures = 2
    /\ cur = get_page_state(url) /\ cur # None

\* The geographic offset from the state s to the target of the running pan,
\* in pixels at the zoom z2: <<dx, dy>> in units of Sqrt(2)^Rad(z2) half
\* pixels.
OffsetAtZoom(s, z2) ==
    <<(frame.lon - s[2]) * Scale(z2), (frame.lat - s[1]) * Scale(z2)>>

\* C20: in every iteration of drag_to_latlon the distance that is tested
\* and the drag vector are those of the offset from the state just read to
\* the target, both projected at the zoom of that state: whatever zoom an
\* earlier iteration read, the vector is the offset at the zoom read now
\* (shortened to max_drag_px when longer), and a read converges exactly
\* when the offset at its own zoom is within tolerance_px.
C20_ProjectsAtZoomOfThisRead ==
    /\ [](InDrag =>
            /\ (~ideal /\ i >= 1) => cur = get_page_state(url)
            /\ InGesture
               => LET e  == OffsetAtZoom(cur, cur[3])
                      e2 == Hypot2(e[1], e[2], cur[3])
                  IN  /\ ~DistLeq(e2, frame.tolerance_px)
                      /\ ~LessThanDist(frame.max_drag_px, e2) => mv = e
                      /\ LessThanDist(frame.max_drag_px, e2)
                         => /\ mv[1] * e[2] = mv[2] * e[1]
                            /\ mv[1] * e[1] + mv[2] * e[2] > 0
                            /\ Hypot2(mv[1], mv[2], cur[3])
                                 = frame.max_drag_px * frame.max_drag_px
            /\ (Done /\ outcome = "converged")
               => LET e == OffsetAtZoom(cur, cur[3])
                  IN  DistLeq(Hypot2(e[1], e[2], cur[3]), frame.tolerance_px))
    /\ [][(InDrag /\ pc = "loop" /\ pc' = "move_anchor")
          => /\ cur' = get_page_state(url')
             /\ ~LessThanDist(frame.max_drag_px,
                              Hypot2(OffsetAtZoom(cur', cur'[3])[1],
                                     OffsetAtZoom(cur', cur'[3])[2], cur'[3]))
                => mv' = OffsetAtZoom(cur', cur'[3])]_vars

\* The first iteration read zoom 12 and dragged by the offset at zoom 12,
\* beyond tolerance; the second read the same offset at zoom 9, where it is
\* within tolerance, and converged.
C20_Witness ==
    /\ ~ideal /\ InDrag /\ Done /\ outcome = "converged"
    /\ nReads = 2 /\ nGestures = 1
    /\ cur[3] = 18
    /\ mv = OffsetAtZoom(cur, 24) /\ mv # <<0, 0>>
    /\ ~DistLeq(Hypot2(mv[1], mv[2], 24), frame.tolerance_px)
    /\ DistLeq(TargetDist2(cur), frame.tolerance_px)

\* C21: an iteration of drag_to_latlon that read a state beyond tolerance
\* issues exactly one gesture, made in this order of: a move to the anchor,
\* a press, one move of step_count steps to the anchor displaced by
\* <<-mx, -my>>, a release, and the settle pause; the button is down from
\* the press to the release only, and no state is read in between.
C21_OneGesturePerIteration ==
    /\ [](InDrag =>
            /\ pc = "mouse_down"
               => /\ ev.kind = "mouse_move" /\ ev.arg = 1
                  /\ mouse = [at |-> "anchor", down |-> FALSE]
            /\ pc = "drag_move"
               => /\ ev.kind = "mouse_down"
                  /\ mouse = [at |-> "anchor", down |-> TRUE]
            /\ pc = "mouse_up"
               => /\ ev.kind = "mouse_move" /\ ev.arg = frame.step_count
                  /\ mouse = [at |-> "anchor_minus_mv", down |-> TRUE]
            /\ pc = "settle"
               => /\ ev.kind = "mouse_up"
                  /\ mouse = [at |-> "anchor_minus_mv", down |-> FALSE]
            /\ mouse.down <=> pc \in {"drag_move", "mouse_up"}
            /\ pc \in {"loop", "backoff"} => nGestures = i - nUnavailable
            /\ Done => nGestures = i - nUnavailable
                                   - (IF outcome = "converged" THEN 1 ELSE 0))
    /\ [][InDrag =>
            /\ pc = "move_anchor" => ev.kind = "read" /\ pc' = "mouse_down"
            /\ pc = "settle"
               => ev'.kind = "sleep" /\ pc' = "loop" /\ mouse' = mouse
            /\ mouse.down
               => ev'.kind \in {"mouse_move", "mouse_up"} /\ nReads' = nReads
            /\ nGestures' = nGestures + 1
               => pc = "move_anchor" /\ i' = i /\ cur' = cur /\ mv' = mv]_vars

\* Two iterations have each made their gesture and settled.
C21_Witness ==
    /\ InDrag /\ pc = "loop" /\ i = 2 /\ nGestures = 2 /\ nUnavailable = 0
    /\ ev.kind = "sleep"
    /\ mouse = [at |-> "anchor_minus_mv", down |-> FALSE]
    /\ mv # <<0, 0>>
    /\ Clamped(frame.max_drag_px, TargetDist2(cur))

\* C22: before drag_to_latlon projects the state it read and its target,
\* the latitudes are brought strictly inside (-90, 90): ll_to_pixel is never
\* evaluated at a pole and never fails there.
C22_LatitudeClampedBeforeProjection ==
    (InDrag /\ cur # None)
    => /\ ~ProjectionFails(cur[1])
       /\ ~ProjectionFails(frame.lat)
       /\ result.kind # "raised"

\* Some argument of the call is zero or negative.
BadConfig ==
    \/ call.tolerance_px <= 0
    \/ call.max_iterations <= 0
    \/ call.max_drag_px <= 0
    \/ call.step_count <= 0

\* C23: a call of drag_to_latlon with a zero or negative tolerance_px,
\* max_iterations, max_drag_px or step_count is rejected: it makes no state
\* read and no gesture with that value, and it does not return normally.
C23_NonPositiveConfigRejected ==
    (InDrag /\ BadConfig)
    => /\ nReads = 0
       /\ nGestures = 0
       /\ Done => result.kind = "raised"

InClamp == call.fn = "clamp_coordinates" /\ pc = "returned"

\* C24: clamp_coordinates is idempotent: clamping its result again to the
\* same bounds gives the result back, for every point and every bounds,
\* those with a minimum above the maximum included.
C24_ClampIdempotent ==
    /\ [](InClamp => /\ Len(calls) >= 2
                        => result.value = <<calls[Len(calls)].lat,
                                            calls[Len(calls)].lon>>
                     /\ clamp_coordinates(result.value[1], result.value[2],
                                          call.bounds) = result.value)
    /\ [][(InClamp /\ calls' # calls) => result' = result]_vars

\* A point clamped twice to bounds whose minima exceed their maxima, and
\* moved by the first clamp on both axes.
C24_Witness ==
    /\ InClamp /\ Len(calls) = 2
    /\ call.bounds[1] > call.bounds[2] /\ call.bounds[3] > call.bounds[4]
    /\ result.value[1] # call.lat /\ result.value[2] # call.lon
    /\ result.value = <<calls[2].lat, calls[2].lon>>

\* The value v clamped into [lo, hi], lo <= hi: v inside, else the nearer
\* bound.
Nearest(v, lo, hi) == IF v < lo THEN lo ELSE IF v > hi THEN hi ELSE v

\* C25: for bounds with latMin <= latMax and lonMin <= lonMax the clamped
\* lat is lat if it lies within [latMin, latMax] and the nearer bound
\* otherwise, and likewise lon; the clamped lat is the same whatever lon is
\* and the clamped lon whatever lat is; and a lon beyond a bound becomes
\* that bound, never the longitude it would wrap to (190 gives lonMax).
C25_ClampPerAxisNoWrap ==
    (/\ InClamp /\ Len(calls) = 1
     /\ call.bounds[1] <= call.bounds[2] /\ call.bounds[3] <= call.bounds[4])
    => /\ result.value[1] = Nearest(call.lat, call.bounds[1], call.bounds[2])
       /\ result.value[2] = Nearest(call.lon, call.bounds[3], call.bounds[4])
       /\ \A lon \in ClampLons :
            clamp_coordinates(call.lat, lon, call.bounds)[1] = result.value[1]
       /\ \A lat \in ClampLats :
            clamp_coordinates(lat, call.lon, call.bounds)[2] = result.value[2]
       /\ call.lon > call.bounds[4] => result.value[2] = call.bounds[4]
       /\ call.lon < call.bounds[3] => result.value[2] = call.bounds[3]

\* Longitude 190 clamped to the whole globe: 180, not -170.
C25_Witness ==
    /\ InClamp /\ Len(calls) = 1
    /\ call.lon = 190 /\ call.lat = 95
    /\ call.bounds = <<-90, 90, -180, 180>>
    /\ result.value = <<90, 180>>

C27_XIncreasingInLonOnly ==
    (call.fn = "ll_to_pixel" /\ pc = "returned")
    => /\ \A lon \in ProjLons :
            /\ lon > call.lon
               => ll_to_pixel(call.lat, lon, call.zoom2)[1] > result.value[1]
            /\ lon < call.lon
               => ll_to_pixel(call.lat, lon, call.zoom2)[1] < result.value[1]
       /\ \A lat \in ProjLats :
            ll_to_pixel(lat, call.lon, call.zoom2)[1] = result.value[1]

\* ll_to_pixel has returned for a point with longitudes on either side of
\* it and other latitudes, at zoom 0.
C27_Witness ==
    /\ call.fn = "ll_to_pixel" /\ pc = "returned"
    /\ call.zoom2 = 0 /\ call.lon = 256 /\ call.lat = 65536
    /\ result.value = <<1, 256>>

RECURSIVE Solo(_, _)
\* The operations a task makes when it runs alone on its page, from the
\* call to the return.
Solo(tk, pg) ==
    IF tk.pc = "done" THEN tk.trace
    ELSE LET r == TaskStep(tk, pg) IN Solo(r.task, r.page)

IsPrefix(a, b) == Len(a) <= Len(b) /\ SubSeq(b, 1, Len(a)) = a

InGather == call.fn = "gather"

\* C28: two convergence loops run concurrently on two distinct pages share
\* no mutable state: under every interleaving of their awaits each makes,
\* on its own page, the reads and gestures it makes when it runs alone, in
\* the same order, and no page receives an operation from the task of the
\* other page.
C28_ConcurrentLoopsIndependent ==
    InGather
    => \A t \in DOMAIN tasks :
         LET alone == Solo(call.tasks[t], call.pages[call.tasks[t].page])
         IN  /\ IsPrefix(tasks[t].trace, alone)
             /\ tasks[t].pc = "done" => tasks[t].trace = alone
             /\ \A k \in 1 .. Len(pages[t].log) :
                  call.tasks[pages[t].log[k].by].page = t

\* The first task is suspended between moving the pointer and scrolling,
\* in its second attempt, while the second task is suspended in the middle
\* of a drag that has moved its page, the button still down.
C28_Witness ==
    /\ InGather
    /\ tasks[1].frame.fn = "wheel_to_zoom" /\ tasks[1].pc = "wheel"
    /\ tasks[1].i = 2
    /\ tasks[2].frame.fn = "drag_to_latlon" /\ tasks[2].pc = "mouse_up"
    /\ pages[2].down /\ ~pages[1].down
    /\ pages[1].url # call.pages[1].url /\ pages[2].url # call.pages[2].url
    /\ \A k \in 1 .. Len(pages[2].log) : pages[2].log[k].by = 2

InPool == call.fn = "create_worker_pool"

\* The pages of the pool: those create_worker_pool put in the queue.
PoolPages == 1 .. Len(create_worker_pool(call.worker_count))

HeldBy(pg) == {t \in DOMAIN workers : Holding(workers[t]) /\ workers[t].page = pg}

InQueue(pg) == \E k \in 1 .. Len(page_q) : page_q[k] = pg

\* C29: with every task taking its page by get() and returning it by put()
\* in a finally clause, no page is held by two tasks at the same time, under
\* every interleaving and also with more tasks than pages: a page is either
\* once in the queue or held by exactly one task.
C29_NoPageHeldTwice ==
    InPool
    => /\ \A t1, t2 \in DOMAIN workers :
            (t1 # t2 /\ Holding(workers[t1]) /\ Holding(workers[t2]))
            => workers[t1].page # workers[t2].page
       /\ \A pg \in PoolPages :
            /\ Cardinality(HeldBy(pg)) + Cardinality({k \in 1 .. Len(page_q) :
                                                       page_q[k] = pg}) = 1
       /\ \A t \in DOMAIN workers :
            Holding(workers[t]) => workers[t].page \in PoolPages

\* Three tasks on a pool of one page: the first has raised and returned the
\* page, the second holds that page now, the third still waits in get().
C29_Witness ==
    /\ InPool
    /\ Len(workers) = 3 /\ Cardinality(PoolPages) = 1
    /\ workers[1].pc = "done" /\ workers[1].raised
    /\ workers[2].pc = "title" /\ workers[2].page = workers[1].page
    /\ workers[3].pc = "get"
    /\ page_q = <<>>

InRoute == call.fn = "setup_resource_blocking"

Resolved(r) == r.aborted + r.continued >= 1

\* C30: with block_types omitted the route handler aborts every request
\* whose resource type is image, media, font or stylesheet and continues
\* every other request, and resolves each request it handled exactly once.
C30_DefaultBlocksFourTypes ==
    (InRoute /\ call.block_types = "None")
    => \A k \in 1 .. Len(requests) :
         Resolved(requests[k])
         => /\ requests[k].aborted + requests[k].continued = 1
            /\ requests[k].aborted = 1
               <=> requests[k].rt \in {"image", "media", "font", "stylesheet"}

RECURSIVE DragsNeeded(_, _)
\* The number of drags after which the ideal viewport, starting at url u,
\* shows a distance within tolerance_px; more than n if n drags do not do.
DragsNeeded(u, n) ==
    LET s == get_page_state(u)
        d == PanVector(s, frame.lat, frame.lon)
    IN  IF CloseEnough(TargetDist2(s), frame.tolerance_px) THEN 0
        ELSE IF n = 0 THEN 1
        ELSE 1 + DragsNeeded(DraggedUrl(u, DragVector(d[1], d[2], s[3],
                                                      frame.max_drag_px)),
                             n - 1)

\* C31: on the ideal viewport convergence is detected only by a state read
\* made after the last drag: with k the number of drags that bring the
\* distance within tolerance_px, drag_to_latlon ends converged iff
\* k + 1 <= max_iterations, then on a read that follows its k drags; and
\* with k = max_iterations it makes all k drags and ends exhausted without
\* reading the state they left, which is within tolerance_px.
C31_ConvergedIffAReadFollowsLastDrag ==
    (ideal /\ InDrag /\ Done)
    => LET k == DragsNeeded(start, frame.max_iterations)
       IN  /\ outcome = "converged" <=> k + 1 <= frame.max_iterations
           /\ outcome = "converged"
              => /\ nGestures = k /\ nReads = k + 1
                 /\ ev.kind = "read"
           /\ k = frame.max_iterations
              => /\ outcome = "exhausted"
                 /\ nGestures = k /\ nReads = k
                 /\ ev.kind # "read"
                 /\ cur # get_page_state(url)
                 /\ CloseEnough(TargetDist2(get_page_state(url)),
                                frame.tolerance_px)

\* Two drags were needed and two iterations allowed: both drags made, the
\* viewport on target, and the loop out of iterations.
C31_Witness ==
    /\ ideal /\ InDrag /\ Done /\ outcome = "exhausted"
    /\ frame.max_iterations = 2
    /\ DragsNeeded(start, frame.max_iterations) = 2
    /\ nGestures = 2 /\ nReads = 2
    /\ CloseEnough(TargetDist2(get_page_state(url)), frame.tolerance_px)

\* The loops of the given kind human_like_recenter has called so far.
CallsOf(fn) == {k \in 1 .. Len(calls) : calls[k].fn = fn}

\* C32: human_like_recenter always terminates, whatever the page shows:
\* every step lowers a measure bounded below; it calls at most two zoom
\* loops and two pan loops, each loop starts its own count at 0 whatever the
\* loops before it used, makes at most one gesture per iteration and at
\* most 20 (zoom) or 18 (pan) iterations: at most 2 * 20 scrolls and 2 * 18
\* drags in total.
C32_RecenterBoundedByPhaseCeilings ==
    /\ [](/\ RecenterRank >= 0
          /\ rc # "done" => ENABLED NextRecenter
          /\ Cardinality(CallsOf("wheel_to_zoom")) <= 2
          /\ Cardinality(CallsOf("drag_to_latlon")) <= 2
          /\ InWheel => /\ frame.max_attempts = DefaultMaxAttempts
                        /\ i <= DefaultMaxAttempts
          /\ InDrag => /\ frame.max_iterations = DefaultMaxIterations
                       /\ i <= DefaultMaxIterations
          /\ nGestures <= i)
    /\ [][/\ RecenterRank' < RecenterRank
          /\ Len(calls') > Len(calls)
             => /\ Len(calls') = Len(calls) + 1
                /\ i' = 0 /\ nGestures' = 0 /\ nReads' = 0
          /\ Len(calls') = Len(calls)
             => /\ nGestures' \in {nGestures, nGestures + 1}
                /\ i' \in {i, i + 1}
          /\ ev'.kind = "mouse_wheel"
             => /\ InWheel /\ nGestures' = nGestures + 1
                /\ Len(calls') = Len(calls)
          /\ ev'.kind = "mouse_down"
             => InDrag /\ nGestures' = nGestures /\ nGestures >= 1]_vars

\* The fourth loop has made a drag in each of its 18 iterations, after the
\* three loops before it had used up their ceilings on an unreadable page.
C32_Witness ==
    /\ rc = "done" /\ Len(calls) = 4 /\ InDrag
    /\ outcome = "exhausted"
    /\ nGestures = DefaultMaxIterations /\ i = DefaultMaxIterations
    /\ nStarved = 3

\* A measure that every step of grid_sweep lowers and that is never below 0:
\* the points still to visit, then what is left of the visit of this one.
SweepRank ==
    IF rc \in {"done", "raised"} THEN 0
    ELSE IF rc = "sweep_start"
    THEN 200 * (2 * call.rings * (call.rings + 2) + 1)
    ELSE 200 * (Len(coords) - pt)
         + CASE rc = "sweep_pan"      -> 3 + PanRank
             [] rc = "sweep_callback" -> 2
             [] OTHER                 -> 1

\* C33: grid_sweep visits every generated point whatever its pan loop does:
\* when the pan loop of a point returns, exhausted or converged, also with
\* every read unavailable, the callback of that point is invoked next (the
\* dwell if there is no callback) and the next point follows the dwell.
\* Unless the callback raises the sweep never blocks, every step brings its
\* end nearer, and it ends after one pan loop, one callback and one dwell
\* per point, each pan loop having made at most 18 drags.
C33_SweepVisitsEveryPoint ==
    /\ [](InSweep =>
            /\ SweepRank >= 0
            /\ rc \notin {"done", "raised"} => ENABLED NextSweep
            /\ Len(calls) = pt /\ pt <= Len(coords)
            /\ nGestures <= DefaultMaxIterations
            /\ rc = "raised" => (cbs # <<>> /\ cbs[Len(cbs)].raised)
            /\ rc = "done"
               => /\ pt = Len(coords) /\ Len(calls) = Len(coords)
                  /\ ev.kind = "dwell" /\ ev.arg = Len(coords)
                  /\ call.action_callback # "None" => Len(cbs) = Len(coords))
    /\ [][/\ SweepRank' < SweepRank
          /\ (rc = "sweep_pan" /\ rc' # rc)
             => /\ outcome' \in {"converged", "exhausted"}
                /\ rc' = IF call.action_callback # "None"
                         THEN "sweep_callback" ELSE "sweep_dwell"
                /\ pt' = pt /\ calls' = calls
          /\ (rc = "sweep_callback" /\ ~cbs'[Len(cbs')].raised)
             => rc' = "sweep_dwell" /\ Len(cbs') = pt
          /\ rc = "sweep_dwell"
             => /\ ev' = Ev("dwell", pt)
                /\ IF pt < Len(coords)
                   THEN /\ pt' = pt + 1 /\ rc' = "sweep_pan"
                        /\ Len(calls') = pt + 1 /\ nGestures' = 0 /\ i' = 0
                   ELSE rc' = "done"
          /\ pt' # pt => (rc = "sweep_dwell" \/ rc = "sweep_start")
          /\ (ev'.kind = "dwell" /\ ev' # ev) => rc = "sweep_dwell"]_vars

\* A sweep of 16 points with a callback has ended although the pan loop of
\* its last point never read a state: 16 pan loops, callbacks and dwells.
C33_Witness ==
    /\ InSweep /\ rc = "done" /\ call.action_callback # "None"
    /\ Len(coords) = 16 /\ pt = 16 /\ Len(calls) = 16 /\ Len(cbs) = 16
    /\ outcome = "exhausted" /\ nUnavailable = DefaultMaxIterations
    /\ ev = Ev("dwell", 16)

\* C34: in drag_to_latlon presses and releases of the pointer button strictly
\* alternate, starting with a press: a press is only made with the button up
\* and a release only with it down; the button is up at every state read, at
\* every pause and whenever the function has returned, converged or
\* exhausted.
C34_ButtonDiscipline ==
    /\ [](InDrag =>
            /\ mouse.down <=> pc \in {"drag_move", "mouse_up"}
            /\ ev.kind \in {"read", "sleep"} => ~mouse.down
            /\ Done => ~mouse.down
            /\ nGestures = 0 => ~mouse.down)
    /\ [][/\ (ev'.kind = "mouse_down" /\ pc' # pc)
             => ~mouse.down /\ mouse'.down
          /\ (ev'.kind = "mouse_up" /\ pc' # pc)
             => mouse.down /\ ~mouse'.down
          /\ mouse'.down # mouse.down
             => ev'.kind = IF mouse.down THEN "mouse_up" ELSE "mouse_down"
          /\ (ev'.kind \in {"read", "sleep"} /\ pc' # pc)
             => ~mouse.down /\ ~mouse'.down]_vars

\* The loop has run out of iterations after three drags: the button was
\* pressed and released three times and is up.
C34_Witness ==
    /\ InDrag /\ Done /\ outcome = "exhausted"
    /\ nGestures = 3 /\ ~mouse.down
    /\ mouse.at = "anchor_minus_mv"
    /\ ev.kind = "sleep"

\* The tasks that hold a page.
Holders == {t \in DOMAIN workers : Holding(workers[t])}

AllItemsDone == \A t \in DOMAIN workers : workers[t].pc = "done"

\* max(1, worker_count), written out.
PoolSize == IF call.worker_count < 1 THEN 1 ELSE call.worker_count

\* C35: create_worker_pool puts exactly max(1, worker_count) pages in the
\* queue; under get / try / finally put the pages in the queue and the pages
\* held by tasks are together that many at every moment; and once every
\* task has finished, those whose body raised included, the queue holds all
\* the pages again.
C35_PoolConservation ==
    /\ [](InPool =>
            /\ Len(create_worker_pool(call.worker_count)) = PoolSize
            /\ Len(page_q) + Cardinality(Holders) = PoolSize
            /\ (\A t \in DOMAIN workers : workers[t].pc = "get")
               => Len(page_q) = PoolSize
            /\ AllItemsDone
               => /\ Len(page_q) = PoolSize
                  /\ {page_q[k] : k \in 1 .. Len(page_q)} = 1 .. PoolSize)
    /\ [][/\ Len(page_q') = Len(page_q) - 1
             => Cardinality(Holders') = Cardinality(Holders) + 1
          /\ Len(page_q') = Len(page_q) + 1
             => Cardinality(Holders') = Cardinality(Holders) - 1
          /\ Len(page_q') - Len(page_q) \in {-1, 0, 1}]_vars

\* Three tasks on a pool of two pages have all finished, two of them after
\* their body raised: both pages are back in the queue, in the other order.
C35_Witness ==
    /\ InPool /\ AllItemsDone
    /\ Len(workers) = 3 /\ call.worker_count = 2
    /\ workers[1].raised /\ workers[2].raised /\ ~workers[3].raised
    /\ page_q = <<2, 1>>

Waiting(t) == t \in DOMAIN workers /\ workers[t].pc = "get"

Finished(t) == t \in DOMAIN workers /\ workers[t].pc = "done"

\* C36: with more tasks than pooled pages, and every awaited step of a task
\* that holds a page coming back, every task that waits in get() eventually
\* gets a page and every task eventually completes for good; as long as a
\* task is not done some task can take a step.
C36_EveryItemCompletes ==
    /\ [](InPool => (~AllItemsDone => ENABLED NextPool))
    /\ \A t \in 1 .. MaxItems :
         /\ Waiting(t) ~> (t \in Holders)
         /\ (t \in DOMAIN workers) ~> []Finished(t)
    /\ <>[]AllItemsDone

\* Three tasks on a pool of one page have all completed, none of them
\* having raised.
C36_Witness ==
    /\ InPool /\ AllItemsDone
    /\ Len(workers) = 3 /\ PoolSize = 1 /\ call.worker_count = 0
    /\ \A t \in DOMAIN workers : ~workers[t].raised /\ workers[t].page = 1
    /\ page_q = <<1>>

\* C37: human_scroll issues exactly pauses wheel events whose vertical
\* deltas sum to distance_px in the requested direction (negative for "up",
\* positive otherwise), for every positive distance_px and pauses.
C37_ScrollsRequestedDistance ==
    (InScroll /\ Done)
    => /\ nGestures = call.pauses
       /\ scrolled = ScrollDelta(call.direction) * call.distance_px

\* The patterns of the handlers _handle_response has called, in call order.
CalledPatterns ==
    LET IsCall(e) == e.op = "call"
        called == SelectSeq(interceptor, IsCall)
    IN  [k \in DOMAIN called |-> called[k].pattern]

\* The registered patterns that occur in the response url, in registration
\* order.
MatchingPatterns ==
    LET Occurs(p) == Contains(p, call.url)
    IN  SelectSeq(call.handlers, Occurs)

\* C38: for each response the handler made by create_response_interceptor
\* calls every registered handler whose pattern is a substring of the
\* response url exactly once, in registration order, and no handler whose
\* pattern does not occur; an exception raised by a handler is caught, does
\* not propagate and does not keep later matching handlers from being called.
C38_MatchingHandlersCalledInOrder ==
    InIntercept
    => /\ pc # "raised"
       /\ IsPrefix(CalledPatterns, MatchingPatterns)
       /\ Done => CalledPatterns = MatchingPatterns
       /\ ~Done => ENABLED NextIntercept

\* A response for which a handler raised, a later matching handler was
\* still called, and one registered handler did not match.
C38_Witness ==
    /\ InIntercept /\ Done
    /\ Len(MatchingPatterns) < Len(call.handlers)
    /\ \E j, k \in DOMAIN interceptor :
         /\ j < k
         /\ interceptor[j].op = "print"
         /\ interceptor[k].op = "call"

\* The BenchmarkResult test_website has built.
BenchResult == bench.result[1]

\* C39: BenchmarkTester.test_website produces a BenchmarkResult on every
\* path: when a step between the browser launch and the construction of the
\* result raises, it returns a result with success False and error_message
\* set instead of propagating; on both paths every page, context and browser
\* that had been opened is closed before the function returns.
C39_ResultOnEveryPath ==
    InBench
    => /\ ~Done => ENABLED NextBench
       /\ Done =>
            /\ bench.result # <<>>
            /\ bench.raised_at # ""
                 => /\ ~BenchResult.success
                    /\ BenchResult.error_message # "None"
            /\ bench.raised_at = "" => BenchResult.error_message = "None"
            /\ bench.brw # "open"
            /\ bench.ctx # "open"
            /\ bench.pg # "open"

\* The navigation raised after browser, context and page were opened:
\* test_website returned the failed result and all three are closed.
C39_Witness ==
    /\ InBench /\ Done
    /\ bench.raised_at = "goto"
    /\ bench.result = <<FailedResult>>
    /\ bench.brw = "closed" /\ bench.ctx = "closed" /\ bench.pg = "closed"

\* C40: in every BenchmarkResult of the non-failing path,
\* detected_by_bot_protection holds exactly when challenge_type is set, which
\* is exactly when one of the cloudflare, akamai, recaptcha, hcaptcha and
\* turnstile indicators is set; captcha_present implies
\* detected_by_bot_protection; challenge_type names the first indicator set
\* in the order Cloudflare, Akamai, reCAPTCHA, hCaptcha, Cloudflare
\* Turnstile; success implies that none of the cloudflare, akamai,
\* access-denied and rate-limit indicators is set and that the HTTP status is
\* not 403, 429 or 503.
C40_ResultConsistent ==
    (InBench /\ bench.result # <<>> /\ bench.raised_at = "")
    => LET r == BenchResult
           d == bench.detection
           cf == d.has_cloudflare_challenge
           ak == d.has_akamai_challenge
           re == d.has_recaptcha
           hc == d.has_hcaptcha
           ts == d.has_cloudflare_turnstile
       IN  /\ r.detected_by_bot_protection <=> r.challenge_type # "None"
           /\ r.challenge_type # "None" <=> (cf \/ ak \/ re \/ hc \/ ts)
           /\ r.captcha_present => r.detected_by_bot_protection
           /\ r.challenge_type = "Cloudflare" <=> cf
           /\ r.challenge_type = "Akamai" <=> (~cf /\ ak)
           /\ r.challenge_type = "reCAPTCHA" <=> (~cf /\ ~ak /\ re)
           /\ r.challenge_type = "hCaptcha" <=> (~cf /\ ~ak /\ ~re /\ hc)
           /\ r.challenge_type = "Cloudflare Turnstile"
                <=> (~cf /\ ~ak /\ ~re /\ ~hc /\ ts)
           /\ r.success
                => /\ ~cf /\ ~ak
                   /\ ~d.has_access_denied /\ ~d.has_rate_limit
                   /\ r.http_status \notin {<<403>>, <<429>>, <<503>>}

\* A result of the non-failing path with a Cloudflare challenge and a
\* reCAPTCHA on the page: the type is Cloudflare, a captcha is present and
\* the run did not succeed.
C40_Witness ==
    /\ InBench /\ Done /\ bench.raised_at = ""
    /\ bench.detection.has_cloudflare_challenge
    /\ bench.detection.has_recaptcha
    /\ BenchResult.challenge_type = "Cloudflare"
    /\ BenchResult.captcha_present
    /\ ~BenchResult.success
=============================================================================
